---- MODULE Spec2Model ----
(***************************************************************************)
(* Model of the caddy2-gitspace controller: the Admin API client           *)
(* (router/admin_client.go), the route id codec (router/route_id.go), the  *)
(* RouteIDTracker, the event handler, the startup recovery and the         *)
(* periodic reconciliation (module.go).                                    *)
(*                                                                         *)
(* Strings that the code takes apart (route ids) are sequences of tokens,  *)
(* so that prefix tests and trimming are computed as the code computes     *)
(* them.  A target address "ip:port" is the pair <<ip, port>>.             *)
(***************************************************************************)
EXTENDS Integers, Sequences, FiniteSets, TLC

VARIABLES
    engine,      \* raw route list held by the routing engine (Caddy)
    engine0,     \* history: what the engine held when the run began
    hpc,         \* position of the watcher callback thread (or of the client driver)
    cr,          \* arguments of the CreateRoute call in progress
    hret,        \* where the thread continues when the client call returns
    hres,        \* result of the last completed client call of the thread
    hlog,        \* requests the thread sent since its current operation began
    hop,         \* the client operation the driver ran last
    crSeen,      \* what GetRoute answered inside the CreateRoute call in progress
    streak,      \* history: run of identical successful CreateRoute calls
    listOut,     \* result of the last ListRoutes call, with the listing it read
    cl,          \* CleanupDuplicateRoutes frame
    clOut,       \* result of the last CleanupDuplicateRoutes call
    faults,      \* failed calls injected so far
    tracker,     \* RouteIDTracker.routes: deployment key -> RouteInfo
    deps,        \* the Deployments of the namespace, as the API server holds them
    pods,        \* IP of the ready Pod of each Deployment, "" when there is none
    queue,       \* notifications the informer has not yet delivered to the callbacks
    changes,     \* changes the cluster has made so far
    hev,         \* the notification the callback thread is handling
    hpod,        \* the Pod IP findReadyPod returned to the callback
    hnext,       \* what the callback does after its current call
    hpatch,      \* outcome of the annotation write-back of the callback
    hcalls,      \* history: the Route Table Client calls of the callback
    hseen,       \* history: the tracker entry of the workload when the callback decided
    rec,         \* frame of reconcileRoutesWithK8s
    rcv,         \* frame of recoverTrackerWithRetry
    ctxDone,     \* kr.ctx has been cancelled
    stopCh,      \* the watcher's stop channel: "open", "closed", or "panic"
    spc,         \* position of K8sRouter.Stop
    wpc,         \* position of the goroutine that runs Watcher.Start
    ppc,         \* position of runPeriodicReconciliation
    isReady,     \* Watcher.ready, what IsReady returns
    tk,          \* a RouteIDTracker on its own, with the values its callers hold
    rid,         \* a gitspace identifier, the route id built from it, and its parse
    cfg          \* a Config, before and after Validate

clientVars == <<engine, engine0, hpc, cr, hret, hres, hlog, hop, crSeen, streak, listOut, cl, clOut>>

handlerVars == <<hev, hpod, hnext, hpatch, hcalls, hseen>>

k8sVars == <<deps, pods, queue, changes>>

sysVars == <<tracker, k8sVars, handlerVars, rec, rcv>>

lifeVars == <<ctxDone, stopCh, spc, wpc, ppc, isReady>>

drvVars == <<tk, rid, cfg>>

vars == <<clientVars, faults, sysVars, lifeVars, drvVars>>

\* the module has just started: nothing is cancelled, the watcher waits for
\* its caches, the periodic reconciliation waits for its ticker
InitLife ==
    /\ ctxDone = FALSE
    /\ stopCh = "open"
    /\ spc = "run"
    /\ wpc = "sync"
    /\ ppc = "select"
    /\ isReady = FALSE

\* close(w.stopCh): closing a closed channel panics
Close(ch) == IF ch = "open" THEN "closed" ELSE "panic"

\* a panic in a goroutine ends the process
Alive == stopCh # "panic"

\* Watcher.Stop, lines 106-111: close(w.stopCh), then w.ready = false; the
\* panic of the close leaves ready as it was
Stopped(ch, r) == IF ch = "open" THEN FALSE ELSE r

----------------------------------------------------------------------------
(* Bounds *)

MaxRaw == 4        \* longest raw listing ListRoutes and the cleanup are given
MaxHeld == 2       \* routes the engine holds when the CreateRoute driver starts
MaxEngine == 5     \* the engine accepts a create only below this many routes
MaxCalls == 3      \* longest run of identical CreateRoute calls that is counted
MaxFaults == 1     \* failed calls injected per run (per operation of the driver)
MaxQueue == 1      \* notifications the informer holds undelivered
MaxChanges == 2    \* changes the cluster makes in one run
MaxObjects == 5    \* RouteInfo objects a tracker and its callers hold at once
MaxIdLen == 4      \* characters of a gitspace identifier
RecoveryFaults == 5  \* failed calls injected in a run of the startup recovery

----------------------------------------------------------------------------
(* Route identifiers: router/route_id.go *)

RouteIDPrefixNew == <<"gitspace", ":">>

HasPrefix(s, p) == Len(s) >= Len(p) /\ SubSeq(s, 1, Len(p)) = p

TrimPrefix(s, p) == IF HasPrefix(s, p) THEN SubSeq(s, Len(p) + 1, Len(s)) ELSE s

\* fmt.Sprintf("%s:%s", RouteIDPrefixNew, gitspaceIdentifier)
BuildRouteID(gitspaceIdentifier) == RouteIDPrefixNew \o <<":">> \o gitspaceIdentifier

IsManagedRouteID(routeID) == HasPrefix(routeID, RouteIDPrefixNew)

\* the characters of gitspace identifiers, and the identifiers
IdChars == {"a", "b", ":"}
Identifiers == UNION {[1..n -> IdChars] : n \in 1..MaxIdLen}

NoRid == [pc |-> "none", x |-> <<>>, built |-> <<>>, parsed |-> [id |-> <<>>, err |-> FALSE]]


----------------------------------------------------------------------------
(* The routing engine's control API, as the client sees it.  A route is    *)
(* [id, host, dial]; a route without "@id" has id = <<>>.  POST .../routes *)
(* appends; /id/<id> resolves to the last route carrying that id.          *)

NoAddr == <<>>

TargetAddr(ip, port) == <<ip, port>>

Route(id, host, dial) == [id |-> id, host |-> host, dial |-> dial]

RECURSIVE LastIndex(_, _, _)
LastIndex(e, id, i) ==
    IF i = 0 THEN 0
    ELSE IF e[i].id = id THEN i
    ELSE LastIndex(e, id, i - 1)

EngineIndex(e, id) == IF id = <<>> THEN 0 ELSE LastIndex(e, id, Len(e))

EngineHas(e, id) == EngineIndex(e, id) # 0

RemoveAt(e, i) == SubSeq(e, 1, i - 1) \o SubSeq(e, i + 1, Len(e))

\* DELETE /id/<id>: removes the indexed route, 404 when there is none
EngineDelete(e, id) == IF EngineHas(e, id) THEN RemoveAt(e, EngineIndex(e, id)) ELSE e

EngineDeleteStatus(e, id, up) ==
    IF ~up THEN 500 ELSE IF EngineHas(e, id) THEN 200 ELSE 404

EngineGetStatus(e, id, up) ==
    IF ~up THEN 500 ELSE IF EngineHas(e, id) THEN 200 ELSE 404

Count(e, id) == Cardinality({i \in 1..Len(e) : e[i].id = id})

ManagedIDs(e) == {e[i].id : i \in {j \in 1..Len(e) : IsManagedRouteID(e[j].id)}}

----------------------------------------------------------------------------
(* router/admin_client.go *)

\* a request and the status the engine answered it with
Req(m, id, body, st) == [m |-> m, id |-> id, body |-> body, st |-> st]

NoBody == <<>>

IsSuccess(status) == status >= 200 /\ status < 300

\* DeleteRoute: 2xx and 404 are both success
DeleteRouteNo404(status) == IsSuccess(status)
DeleteRouteOK(status) == IsSuccess(status) \/ status = 404

\* GetRoute: the RouteConfig parsed from the answer, or NoRoute on 404
NoRoute == [ID |-> <<>>, Domain |-> "", TargetAddr |-> NoAddr, found |-> FALSE]

GetRoute(e, routeID) ==
    IF EngineHas(e, routeID)
    THEN [ID |-> routeID, Domain |-> e[EngineIndex(e, routeID)].host,
          TargetAddr |-> e[EngineIndex(e, routeID)].dial, found |-> TRUE]
    ELSE NoRoute

ValidIPs == {"10.0.0.5", "10.0.0.6"}

\* a validation that lets every port through
ValidArgsAnyPort(routeID, domain, targetIP, targetPort) ==
    /\ routeID # <<>>
    /\ domain # ""
    /\ targetIP \in ValidIPs

\* CreateRoute's parameter validation
ValidArgs(routeID, domain, targetIP, targetPort) ==
    /\ routeID # <<>>
    /\ domain # ""
    /\ targetIP \in ValidIPs
    /\ targetPort >= 1 /\ targetPort <= 65535

\* CreateRoute's idempotence test on the existing route
SameConfigBareIP(existing, domain, expectedTargetAddr) ==
    existing.Domain = domain /\ existing.TargetAddr = <<expectedTargetAddr[1]>>
SameConfig(existing, domain, expectedTargetAddr) ==
    existing.Domain = domain /\ existing.TargetAddr = expectedTargetAddr

\* CreateRoute, lines 80-96: what follows the answer of GetRoute
CreateRouteBranchNoDelete(status, existing, domain, expectedTargetAddr) ==
    IF status = 404 THEN "post"
    ELSE IF ~IsSuccess(status) THEN "err"
    ELSE IF SameConfig(existing, domain, expectedTargetAddr) THEN "same"
    ELSE "post"
CreateRouteBranch(status, existing, domain, expectedTargetAddr) ==
    IF status = 404 THEN "post"
    ELSE IF ~IsSuccess(status) THEN "err"
    ELSE IF SameConfig(existing, domain, expectedTargetAddr) THEN "same"
    ELSE "delete"

NoCall == [id |-> <<>>, domain |-> "", ip |-> "", port |-> 0]
NoStreak == [args |-> NoCall, live |-> FALSE, n |-> 0, posts |-> 0]

\* whether the engine (or the API server) answers a call: a call may fail
\* while the fault budget lasts
UpChoices == IF faults < MaxFaults THEN BOOLEAN ELSE {TRUE}

FaultsAfter(up) == IF up THEN faults ELSE faults + 1

\* a client call that reports success whatever the engine answered
ReturnSuccess(result) ==
    /\ hpc' = hret
    /\ hres' = "ok"

\* a client call returns to the thread that made it
Return(result) ==
    /\ hpc' = hret
    /\ hres' = result


Min(a, b) == IF a < b THEN a ELSE b

Posts(log) == Cardinality({i \in 1..Len(log) : log[i].m = "POST"})
Deletes(log) == Cardinality({i \in 1..Len(log) : log[i].m = "DELETE"})

\* history of the driver's run of identical calls: the call returned `result`
\* having sent `log`
StreakAfter(result, log) ==
    IF hret # "idle" THEN streak
    ELSE IF result = "ok" /\ streak.live
    THEN [streak EXCEPT !.n = Min(@ + 1, MaxCalls),
                        !.posts = Min(@ + Posts(log), MaxCalls + 1)]
    ELSE NoStreak

\* CreateRoute, lines 63-77: validation, then the call proceeds to GetRoute
CreateRouteEnter(routeID, domain, targetIP, targetPort, ret) ==
    /\ cr' = [id |-> routeID, domain |-> domain, ip |-> targetIP, port |-> targetPort]
    /\ crSeen' = NoRoute
    /\ hret' = ret
    /\ IF ValidArgs(routeID, domain, targetIP, targetPort)
       THEN /\ hpc' = "cr_get"
            /\ hres' = "none"
       ELSE /\ hpc' = ret
            /\ hres' = "err"

\* CreateRoute, lines 79-90: GetRoute and the idempotence test
CreateRouteGet ==
    /\ hpc = "cr_get"
    /\ \E up \in UpChoices :
        LET status == EngineGetStatus(engine, cr.id, up)
            existing == GetRoute(engine, cr.id)
            log == Append(hlog, Req("GET", cr.id, NoBody, status))
            branch == CreateRouteBranch(status, existing, cr.domain,
                                        TargetAddr(cr.ip, cr.port))
        IN  /\ hlog' = log
            /\ faults' = FaultsAfter(up)
            /\ crSeen' = IF IsSuccess(status) THEN existing ELSE NoRoute
            /\ IF branch = "err"
               THEN /\ Return("err")
                    /\ streak' = StreakAfter("err", log)
               ELSE IF branch = "same"
               THEN /\ Return("ok")
                    /\ streak' = StreakAfter("ok", log)
               ELSE /\ hpc' = IF branch = "delete" THEN "cr_delete" ELSE "cr_post"
                    /\ UNCHANGED <<hres, streak>>
    /\ UNCHANGED <<engine, cr, hret, hop, engine0, lifeVars, drvVars, listOut, cl, clOut, sysVars>>

\* CreateRoute, lines 92-95: the old route is deleted before the new one is sent
CreateRouteDelete ==
    /\ hpc = "cr_delete"
    /\ \E up \in UpChoices :
        LET status == EngineDeleteStatus(engine, cr.id, up)
            log == Append(hlog, Req("DELETE", cr.id, NoBody, status))
        IN  /\ hlog' = log
            /\ faults' = FaultsAfter(up)
            /\ engine' = IF up THEN EngineDelete(engine, cr.id) ELSE engine
            /\ IF DeleteRouteOK(status)
               THEN /\ hpc' = "cr_post"
                    /\ UNCHANGED <<hres, streak>>
               ELSE /\ Return("err")
                    /\ streak' = StreakAfter("err", log)
    /\ UNCHANGED <<cr, hret, hop, engine0, lifeVars, drvVars, crSeen, listOut, cl, clOut, sysVars>>

\* CreateRoute, lines 98-145: POST of the new route
CreateRoutePost ==
    /\ hpc = "cr_post"
    /\ \E up \in UpChoices :
        LET route == Route(cr.id, cr.domain, TargetAddr(cr.ip, cr.port))
            status == IF up /\ Len(engine) < MaxEngine THEN 200 ELSE 500
            log == Append(hlog, Req("POST", cr.id, route, status))
        IN  /\ hlog' = log
            /\ faults' = FaultsAfter(up)
            /\ engine' = IF IsSuccess(status) THEN Append(engine, route) ELSE engine
            /\ Return(IF IsSuccess(status) THEN "ok" ELSE "err")
            /\ streak' = StreakAfter(IF IsSuccess(status) THEN "ok" ELSE "err", log)
    /\ UNCHANGED <<cr, hret, hop, engine0, lifeVars, drvVars, crSeen, listOut, cl, clOut, sysVars>>


\* ListRoutes, lines 275-309: configMap[id] = config for every managed route,
\* later entries overwriting earlier ones
ConfigOf(route) == [ID |-> route.id, Domain |-> route.host, TargetAddr |-> route.dial]

MapSet(m, k, v) == [x \in DOMAIN m \cup {k} |-> IF x = k THEN v ELSE m[x]]

MapSetIfAbsent(m, k, v) == IF k \in DOMAIN m THEN m ELSE MapSet(m, k, v)

EmptyMap == [x \in {} |-> {}]

RECURSIVE ConfigMapFirst(_, _)
ConfigMapFirst(routes, n) ==
    IF n = 0 THEN EmptyMap
    ELSE IF ~IsManagedRouteID(routes[n].id) THEN ConfigMapFirst(routes, n - 1)
    ELSE MapSetIfAbsent(ConfigMapFirst(routes, n - 1), routes[n].id, ConfigOf(routes[n]))

RECURSIVE ConfigMap(_, _)
ConfigMap(routes, n) ==
    IF n = 0 THEN EmptyMap
    ELSE IF ~IsManagedRouteID(routes[n].id) THEN ConfigMap(routes, n - 1)
    ELSE MapSet(ConfigMap(routes, n - 1), routes[n].id, ConfigOf(routes[n]))

\* ListRoutes, lines 311-317: the map's values (in no particular order)
ListRoutes(routes) ==
    LET configMap == ConfigMap(routes, Len(routes))
    IN  {configMap[id] : id \in DOMAIN configMap}

\* CleanupDuplicateRoutes, lines 347-358: seenIDs[id]++ over the managed routes
RECURSIVE SeenIDs(_, _)
SeenIDs(routes, n) ==
    IF n = 0 THEN EmptyMap
    ELSE IF ~IsManagedRouteID(routes[n].id) THEN SeenIDs(routes, n - 1)
    ELSE LET seen == SeenIDs(routes, n - 1)
             id == routes[n].id
         IN  MapSet(seen, id, IF id \in DOMAIN seen THEN seen[id] + 1 ELSE 1)

\* CleanupDuplicateRoutes, lines 362-366: the deletes owed, per duplicated id
CleanupTodoAll(routes) == SeenIDs(routes, Len(routes))
CleanupTodo(routes) ==
    LET seenIDs == SeenIDs(routes, Len(routes))
    IN  [id \in {x \in DOMAIN seenIDs : seenIDs[x] > 1} |-> seenIDs[id]]

ClOff == [pc |-> "off", todo |-> EmptyMap, cur |-> <<>>, count |-> 0,
          dels |-> <<>>, raw |-> <<>>]
NoClOut == [done |-> FALSE, count |-> 0, err |-> FALSE, dels |-> <<>>, raw |-> <<>>]

\* CleanupDuplicateRoutes, lines 323-358: the raw listing is fetched and counted;
\* with nothing to delete the call returns at once
CleanupStart ==
    /\ cl.pc = "off"
    /\ \E up \in UpChoices :
        /\ faults' = FaultsAfter(up)
        /\ IF up /\ DOMAIN CleanupTodo(engine) # {}
           THEN /\ cl' = [pc |-> "run", todo |-> CleanupTodo(engine), cur |-> <<>>,
                          count |-> 0, dels |-> <<>>, raw |-> engine]
                /\ clOut' = NoClOut
           ELSE \* nothing is duplicated, or the listing failed: 0 (and the error)
                /\ cl' = [ClOff EXCEPT !.pc = "done"]
                /\ clOut' = [NoClOut EXCEPT !.done = TRUE, !.err = ~up, !.raw = engine]

\* CleanupDuplicateRoutes, lines 362-376: one pass of the delete loop; the
\* order in which Go ranges over seenIDs is not fixed; the call returns after
\* the last delete and after a failed one
CleanupStep ==
    /\ cl.pc = "run"
    /\ \E id \in {x \in DOMAIN cl.todo : cl.todo[x] > 0}, up \in UpChoices :
        /\ cl.cur # <<>> => id = cl.cur
        /\ faults' = FaultsAfter(up)
        /\ LET status == EngineDeleteStatus(engine, id, up)
               dels == Append(cl.dels, id)
               todo == [cl.todo EXCEPT ![id] = @ - 1]
               last == \A x \in DOMAIN todo : todo[x] = 0
           IN  /\ engine' = IF up THEN EngineDelete(engine, id) ELSE engine
               /\ IF DeleteRouteOK(status) /\ ~last
                  THEN /\ cl' = [cl EXCEPT !.todo = todo,
                                           !.cur = IF todo[id] > 0 THEN id ELSE <<>>,
                                           !.count = @ + 1,
                                           !.dels = dels]
                       /\ UNCHANGED clOut
                  ELSE /\ cl' = [ClOff EXCEPT !.pc = "done"]
                       /\ clOut' = [done |-> TRUE,
                                    count |-> IF DeleteRouteOK(status) THEN cl.count + 1
                                              ELSE cl.count,
                                    err |-> ~DeleteRouteOK(status),
                                    dels |-> dels, raw |-> cl.raw]

----------------------------------------------------------------------------
(* A driver that calls the client's operations one after another, as the   *)
(* tests of router/ do.                                                    *)

IdA == BuildRouteID(<<"a">>)
IdB == BuildRouteID(<<"b">>)

Addr5 == TargetAddr("10.0.0.5", 8089)
Addr6 == TargetAddr("10.0.0.6", 8089)

RawRoutes ==
    { Route(IdA, "a.dev", Addr5), Route(IdA, "a.dev", Addr6),
      Route(IdB, "b.dev", Addr5), Route(<<>>, "static", NoAddr) }

RawListings == UNION {[1..n -> RawRoutes] : n \in 0..MaxRaw}

DriverIDs == {IdA, IdB, <<>>}

Call(id, domain, ip, port) == [id |-> id, domain |-> domain, ip |-> ip, port |-> port]

DriverCalls ==
    {Call(id, domain, ip, 8089) :
        id \in {IdA, IdB}, domain \in {"a.dev", "b.dev"}, ip \in ValidIPs}
    \cup {Call(<<>>, "a.dev", "10.0.0.5", 8089), Call(IdA, "", "10.0.0.5", 8089),
          Call(IdA, "a.dev", "not-an-ip", 8089), Call(IdA, "a.dev", "10.0.0.5", 0),
          Call(IdA, "a.dev", "10.0.0.5", 65536)}

HeldListings == UNION {[1..n -> RawRoutes] : n \in 0..MaxHeld}

NoListOut == [done |-> FALSE, err |-> FALSE, raw |-> <<>>, routes |-> {}]

DriverCreateRoute ==
    /\ hpc = "idle" /\ cl.pc = "off"
    /\ \E args \in DriverCalls :
        /\ CreateRouteEnter(args.id, args.domain, args.ip, args.port, "idle")
        /\ streak' = IF ~ValidArgs(args.id, args.domain, args.ip, args.port) THEN NoStreak
                     ELSE IF streak.live /\ streak.args = args THEN streak
                     ELSE [args |-> args, live |-> ~EngineHas(engine, args.id),
                           n |-> 0, posts |-> 0]
    /\ hop' = "create"
    /\ UNCHANGED <<engine0, lifeVars, drvVars>>
    /\ hlog' = <<>>
    /\ faults' = 0
    /\ UNCHANGED <<engine, listOut, cl, clOut, sysVars>>

\* DeleteRoute, lines 151-179
DriverDeleteRoute ==
    /\ hpc = "idle" /\ cl.pc = "off"
    /\ \E id \in DriverIDs, up \in BOOLEAN :
        LET status == EngineDeleteStatus(engine, id, up)
        IN  /\ cr' = [NoCall EXCEPT !.id = id]
            /\ faults' = 0
            /\ crSeen' = NoRoute
            /\ IF id = <<>>
               THEN /\ hlog' = <<>>
                    /\ hres' = "err"
                    /\ UNCHANGED engine
               ELSE /\ hlog' = <<Req("DELETE", id, NoBody, status)>>
                    /\ hres' = IF DeleteRouteOK(status) THEN "ok" ELSE "err"
                    /\ engine' = IF up THEN EngineDelete(engine, id) ELSE engine
    /\ hop' = "delete"
    /\ UNCHANGED <<engine0, lifeVars, drvVars>>
    /\ streak' = NoStreak
    /\ UNCHANGED <<hpc, hret, listOut, cl, clOut, sysVars>>

\* ListRoutes, lines 250-318
DriverListRoutes ==
    /\ hpc = "idle" /\ cl.pc = "off"
    /\ \E up \in BOOLEAN :
        listOut' = [done |-> TRUE, err |-> ~up, raw |-> engine,
                    routes |-> IF up THEN ListRoutes(engine) ELSE {}]
    /\ faults' = 0
    /\ hop' = "list"
    /\ UNCHANGED <<engine0, lifeVars, drvVars>>
    /\ clOut' = NoClOut
    /\ UNCHANGED <<engine, hpc, cr, hret, hres, hlog, crSeen, streak, cl, sysVars>>

DriverCleanup ==
    /\ hpc = "idle"
    /\ faults = 0
    /\ CleanupStart
    /\ hop' = "cleanup"
    /\ UNCHANGED <<engine0, lifeVars, drvVars>>
    /\ listOut' = NoListOut
    /\ UNCHANGED <<engine, hpc, cr, hret, hres, hlog, crSeen, streak, sysVars>>

DriverCleanupStep ==
    /\ hpc = "idle"
    /\ CleanupStep
    /\ UNCHANGED <<hpc, cr, hret, hres, hlog, hop, engine0, lifeVars, drvVars, crSeen, streak, listOut, sysVars>>

DriverCleanupDone ==
    /\ hpc = "idle"
    /\ cl.pc = "done"
    /\ cl' = ClOff
    /\ faults' = 0
    /\ UNCHANGED <<engine, hpc, cr, hret, hres, hlog, hop, engine0, lifeVars, drvVars, crSeen, streak, listOut,
                   clOut, sysVars>>

InitClient ==
    /\ hpc = "idle"
    /\ cr = NoCall
    /\ hret = "idle"
    /\ hres = "none"
    /\ hlog = <<>>
    /\ hop = "none"
    /\ crSeen = NoRoute
    /\ streak = NoStreak
    /\ listOut = NoListOut
    /\ cl = ClOff
    /\ clOut = NoClOut

----------------------------------------------------------------------------
(* The cluster: the Deployments, their ready Pods, the informer's notifications *)

Workloads == {"w1", "w2"}

\* Spec.Replicas == nil
NilReplicas == 0 - 1

DefaultPort == 8089

BaseDomain == "dev"

\* the value of the "gitspace" label of each workload
GitspaceLabel == [w \in Workloads |-> IF w = "w1" THEN <<"a">> ELSE <<"b">>]

\* the port annotation of each workload, by what strconv.Atoi makes of it
NoAnnotation == [exists |-> FALSE, numeric |-> FALSE, value |-> 0]
PortAnnotation ==
    [w \in Workloads |-> IF w = "w1" THEN NoAnnotation
                         ELSE [exists |-> TRUE, numeric |-> TRUE, value |-> 9000]]

NoDep == [exists |-> FALSE, name |-> "", replicas |-> NilReplicas, ready |-> FALSE,
          label |-> <<>>, port |-> NoAnnotation]

Dep(w, replicas, ready) ==
    [exists |-> TRUE, name |-> w, replicas |-> replicas, ready |-> ready,
     label |-> GitspaceLabel[w], port |-> PortAnnotation[w]]

\* k8s/types.go
GetPortFromAnnotation(annotation, defaultPort) ==
    IF ~annotation.exists THEN [port |-> defaultPort, err |-> FALSE]
    ELSE IF ~annotation.numeric THEN [port |-> 0, err |-> TRUE]
    ELSE IF annotation.value < 1 \/ annotation.value > 65535 THEN [port |-> 0, err |-> TRUE]
    ELSE [port |-> annotation.value, err |-> FALSE]

DesiredReplicaCount(deployment) ==
    IF ~deployment.exists \/ deployment.replicas = NilReplicas THEN 1
    ELSE deployment.replicas

GetGitspaceIdentifier(deployment) ==
    IF deployment.exists /\ deployment.label # <<>> THEN deployment.label ELSE <<>>

\* the Available condition of the Deployment's status
isDeploymentReady(deployment) == deployment.ready

getPortFromDeployment(deployment, defaultPort) ==
    LET got == GetPortFromAnnotation(deployment.port, defaultPort)
    IN  IF got.err THEN defaultPort ELSE got.port

Event(type, w, old, new) == [type |-> type, w |-> w, old |-> old, new |-> new]
NoEvent == Event("none", "", NoDep, NoDep)

\* what the cluster does with each workload: w1 takes every shape, w2 is a
\* single-replica Deployment that is ready from the start
ReplicaChoices(w) == IF w = "w1" THEN {NilReplicas, 1, 2} ELSE {1}
ReadyChoices(w) == IF w = "w1" THEN BOOLEAN ELSE {TRUE}
PodIPs(w) == IF w = "w1" THEN {"10.0.0.5", "10.0.0.6"} ELSE {"10.0.0.6"}

\* a Deployment is Available exactly when it has a ready Pod
PodChoices(w, ready) == IF ready THEN PodIPs(w) ELSE {""}

CanChange == changes < MaxChanges
CanNotify == Len(queue) < MaxQueue

\* a pass of the reconciler that began in a quiet system is quiet no more
Disturbed(f) == [f EXCEPT !.quiet = FALSE]

\* a Deployment is created; the informer notifies AddFunc
K8sAdd ==
    /\ CanChange /\ CanNotify
    /\ \E w \in Workloads :
       \E r \in ReplicaChoices(w), ready \in ReadyChoices(w) :
       \E ip \in PodChoices(w, ready) :
        /\ ~deps[w].exists
        /\ deps' = [deps EXCEPT ![w] = Dep(w, r, ready)]
        /\ pods' = [pods EXCEPT ![w] = ip]
        /\ queue' = Append(queue, Event("add", w, NoDep, Dep(w, r, ready)))
    /\ changes' = changes + 1
    /\ rec' = Disturbed(rec)
    /\ UNCHANGED <<clientVars, lifeVars, drvVars, faults, tracker, handlerVars, rcv>>

\* replicas or readiness of a Deployment change; the informer notifies UpdateFunc
K8sUpdate ==
    /\ CanChange /\ CanNotify
    /\ \E w \in Workloads :
       \E r \in ReplicaChoices(w), ready \in ReadyChoices(w) :
       \E ip \in PodChoices(w, ready) :
        /\ deps[w].exists
        /\ Dep(w, r, ready) # deps[w]
        /\ deps[w].ready /\ ready => ip = pods[w]
        /\ deps' = [deps EXCEPT ![w] = Dep(w, r, ready)]
        /\ pods' = [pods EXCEPT ![w] = ip]
        /\ queue' = Append(queue, Event("update", w, deps[w], Dep(w, r, ready)))
    /\ changes' = changes + 1
    /\ rec' = Disturbed(rec)
    /\ UNCHANGED <<clientVars, lifeVars, drvVars, faults, tracker, handlerVars, rcv>>

\* the ready Pod of an Available Deployment is replaced by one with another IP
\* (a rolling update with maxUnavailable 0); the Deployment's status changes
\* with it, of which the informer notifies UpdateFunc
K8sPodChange ==
    /\ CanChange /\ CanNotify
    /\ \E w \in Workloads :
       \E ip \in PodIPs(w) :
        /\ deps[w].exists /\ deps[w].ready
        /\ ip # pods[w]
        /\ pods' = [pods EXCEPT ![w] = ip]
        /\ queue' = Append(queue, Event("update", w, deps[w], deps[w]))
    /\ changes' = changes + 1
    /\ rec' = Disturbed(rec)
    /\ UNCHANGED <<clientVars, lifeVars, drvVars, faults, tracker, deps, handlerVars, rcv>>

\* the informer's periodic resync: UpdateFunc with the same object twice
K8sResync ==
    /\ CanChange /\ CanNotify
    /\ \E w \in Workloads :
        /\ deps[w].exists
        /\ queue' = Append(queue, Event("update", w, deps[w], deps[w]))
    /\ changes' = changes + 1
    /\ rec' = Disturbed(rec)
    /\ UNCHANGED <<clientVars, lifeVars, drvVars, faults, tracker, deps, pods, handlerVars, rcv>>

\* a Deployment is deleted, its Pods with it; the informer notifies DeleteFunc
K8sDelete ==
    /\ CanChange /\ CanNotify
    /\ \E w \in Workloads :
        /\ deps[w].exists
        /\ deps' = [deps EXCEPT ![w] = NoDep]
        /\ pods' = [pods EXCEPT ![w] = ""]
        /\ queue' = Append(queue, Event("delete", w, deps[w], NoDep))
    /\ changes' = changes + 1
    /\ rec' = Disturbed(rec)
    /\ UNCHANGED <<clientVars, lifeVars, drvVars, faults, tracker, handlerVars, rcv>>

----------------------------------------------------------------------------
(* RouteIDTracker *)

NoEntry == [exists |-> FALSE, RouteID |-> <<>>, TargetAddr |-> NoAddr]

\* a tracker that keeps the route id alone
TrackerSetRouteIDOnly(t, deploymentKey, routeID, targetAddr) ==
    [t EXCEPT ![deploymentKey] =
        [exists |-> TRUE, RouteID |-> routeID, TargetAddr |-> NoAddr]]

\* Set, lines 29-36
TrackerSet(t, deploymentKey, routeID, targetAddr) ==
    [t EXCEPT ![deploymentKey] =
        [exists |-> TRUE, RouteID |-> routeID, TargetAddr |-> targetAddr]]

\* a tracker that finds no entry
TrackerGetMisses(t, deploymentKey) == NoEntry

TrackerGet(t, deploymentKey) == t[deploymentKey]

\* a tracker whose entries are never removed
TrackerDeleteKeeps(t, deploymentKey) == t

\* Delete, lines 57-61
TrackerDelete(t, deploymentKey) == [t EXCEPT ![deploymentKey] = NoEntry]

\* "namespace/name"; the namespace is the one of the configuration
DeploymentKey(deployment) == deployment.name

----------------------------------------------------------------------------
(* Config.Validate: config/config.go *)

\* strings.Contains(c.BaseDomain, "://")
ContainsProtocol(baseDomain) == baseDomain \in {"http://dev"}

\* time.ParseDuration succeeds
ParseDurationOK(period) == period \in {"10s", "30s", "1m", "5m"}

\* url.Parse succeeds
UrlParseOK(rawURL) == rawURL # "http://[::1"

Config(namespace, baseDomain, port, resync, reconcile, adminURL, serverName) ==
    [Namespace |-> namespace, BaseDomain |-> baseDomain, DefaultPort |-> port,
     ResyncPeriod |-> resync, ReconcilePeriod |-> reconcile,
     CaddyAdminURL |-> adminURL, CaddyServerName |-> serverName]

\* the configurations a Caddyfile or a JSON document may give
Configs ==
    {Config(ns, bd, port, rs, rc, url, srv) :
        ns \in {"", "ns"}, bd \in {"", "dev", "http://dev"},
        port \in {0 - 1, 0, 1, 8080, 65535, 65536},
        rs \in {"", "10s", "soon"}, rc \in {"", "1m", "later"},
        url \in {"", "http://caddy:2019", "http://[::1"}, srv \in {"", "main"}}

Validated(c, err) == [c |-> c, err |-> err]

\* a Validate that leaves a default port of zero as it is
ValidateKeepsZeroPort(c) ==
    IF c.Namespace = "" THEN Validated(c, TRUE)
    ELSE IF c.BaseDomain = "" THEN Validated(c, TRUE)
    ELSE IF ContainsProtocol(c.BaseDomain) THEN Validated(c, TRUE)
    ELSE IF c.DefaultPort # 0 /\ (c.DefaultPort < 1 \/ c.DefaultPort > 65535)
    THEN Validated(c, TRUE)
    ELSE
    LET c1 == c
    IN  IF c1.ResyncPeriod # "" /\ ~ParseDurationOK(c1.ResyncPeriod) THEN Validated(c1, TRUE)
    ELSE
    LET c2 == IF c1.ResyncPeriod = "" THEN [c1 EXCEPT !.ResyncPeriod = "30s"] ELSE c1
    IN  IF c2.ReconcilePeriod # "" /\ ~ParseDurationOK(c2.ReconcilePeriod)
        THEN Validated(c2, TRUE)
    ELSE
    LET c3 == IF c2.ReconcilePeriod = "" THEN [c2 EXCEPT !.ReconcilePeriod = "5m"] ELSE c2
    IN  IF c3.CaddyAdminURL # "" /\ ~UrlParseOK(c3.CaddyAdminURL) THEN Validated(c3, TRUE)
    ELSE
    LET c4 == IF c3.CaddyAdminURL = ""
              THEN [c3 EXCEPT !.CaddyAdminURL = "http://localhost:2019"] ELSE c3
        c5 == IF c4.CaddyServerName = "" THEN [c4 EXCEPT !.CaddyServerName = "srv0"] ELSE c4
    IN  Validated(c5, FALSE)

\* Validate, lines 39-100: the receiver as Validate leaves it, and the error
Validate(c) ==
    IF c.Namespace = "" THEN Validated(c, TRUE)
    ELSE IF c.BaseDomain = "" THEN Validated(c, TRUE)
    ELSE IF ContainsProtocol(c.BaseDomain) THEN Validated(c, TRUE)
    ELSE IF c.DefaultPort # 0 /\ (c.DefaultPort < 1 \/ c.DefaultPort > 65535)
    THEN Validated(c, TRUE)
    ELSE
    LET c1 == IF c.DefaultPort = 0 THEN [c EXCEPT !.DefaultPort = DefaultPort] ELSE c
    IN  IF c1.ResyncPeriod # "" /\ ~ParseDurationOK(c1.ResyncPeriod) THEN Validated(c1, TRUE)
    ELSE
    LET c2 == IF c1.ResyncPeriod = "" THEN [c1 EXCEPT !.ResyncPeriod = "30s"] ELSE c1
    IN  IF c2.ReconcilePeriod # "" /\ ~ParseDurationOK(c2.ReconcilePeriod)
        THEN Validated(c2, TRUE)
    ELSE
    LET c3 == IF c2.ReconcilePeriod = "" THEN [c2 EXCEPT !.ReconcilePeriod = "5m"] ELSE c2
    IN  IF c3.CaddyAdminURL # "" /\ ~UrlParseOK(c3.CaddyAdminURL) THEN Validated(c3, TRUE)
    ELSE
    LET c4 == IF c3.CaddyAdminURL = ""
              THEN [c3 EXCEPT !.CaddyAdminURL = "http://localhost:2019"] ELSE c3
        c5 == IF c4.CaddyServerName = "" THEN [c4 EXCEPT !.CaddyServerName = "srv0"] ELSE c4
    IN  Validated(c5, FALSE)

NoConfig == Config("", "", 0, "", "", "", "")

\* given: the Config as loaded; first, second: what the first and the second
\* Validate left and returned
NoCfg == [pc |-> "none", given |-> NoConfig, first |-> Validated(NoConfig, FALSE),
          second |-> Validated(NoConfig, FALSE)]

----------------------------------------------------------------------------
(* RouteIDTracker as a data structure: routes is a Go map from deployment  *)
(* key to *RouteInfo, here the set of its <<key, pointer>> pairs and the   *)
(* heap the pointers point into.  The callers keep what Get and List have  *)
(* returned to them and may write to it.                                   *)

TkKeys == Workloads
TkRouteIDs == {"r1", "r2"}
TkAddrs == {"a1"}

NoInfo == [RouteID |-> "", TargetAddr |-> ""]

\* NewRouteIDTracker, lines 22-26
NoTracker == [routes |-> {}, heap |-> [p \in 1..MaxObjects |-> NoInfo], got |-> 0,
              listed |-> {}, count |-> 0]

InitDrv == tk = NoTracker /\ rid = NoRid /\ cfg = NoCfg

\* the objects that the map or a caller still points to
Ptrs(t) ==
    {e[2] : e \in t.routes} \cup {e[2] : e \in t.listed}
        \cup (IF t.got # 0 THEN {t.got} ELSE {})

\* the garbage collector frees what nothing points to
Collect(t) ==
    [t EXCEPT !.heap = [p \in 1..MaxObjects |-> IF p \in Ptrs(t) THEN t.heap[p] ELSE NoInfo]]

\* &RouteInfo{...}: a new object
Fresh(used) ==
    CHOOSE p \in (1..MaxObjects) \ used : \A q \in (1..MaxObjects) \ used : p <= q

CanAlloc(t, n) == Cardinality((1..MaxObjects) \ Ptrs(t)) >= n

\* a Set that adds an entry and leaves the old one of the key
TkSetAppends(t, deploymentKey, routeID, targetAddr) ==
    LET p == Fresh(Ptrs(t))
    IN  Collect([t EXCEPT !.routes = @ \cup {<<deploymentKey, p>>},
                          !.heap[p] = [RouteID |-> routeID, TargetAddr |-> targetAddr]])

\* Set, lines 29-36: t.routes[deploymentKey] = &RouteInfo{...}
TkSet(t, deploymentKey, routeID, targetAddr) ==
    LET p == Fresh(Ptrs(t))
    IN  Collect([t EXCEPT !.routes = {e \in @ : e[1] # deploymentKey} \cup {<<deploymentKey, p>>},
                          !.heap[p] = [RouteID |-> routeID, TargetAddr |-> targetAddr]])

\* t.routes[deploymentKey]: the pointer the map holds, nil (0) when it holds none
TkLookup(t, deploymentKey) ==
    IF \E e \in t.routes : e[1] = deploymentKey
    THEN (CHOOSE e \in t.routes : e[1] = deploymentKey)[2]
    ELSE 0

\* Get, lines 40-45: return info, exists
TkGet(t, deploymentKey) ==
    Collect([t EXCEPT !.got = TkLookup(t, deploymentKey)])

\* Delete, lines 57-61
TkDelete(t, deploymentKey) ==
    Collect([t EXCEPT !.routes = {e \in @ : e[1] # deploymentKey}])

\* List, lines 70-78: result[k] = &RouteInfo{RouteID: v.RouteID, TargetAddr: v.TargetAddr}
RECURSIVE TkCopy(_, _)
TkCopy(t, todo) ==
    IF todo = {} THEN t
    ELSE LET e == CHOOSE x \in todo : TRUE
             p == Fresh(Ptrs(t))
         IN  TkCopy([t EXCEPT !.listed = @ \cup {<<e[1], p>>}, !.heap[p] = t.heap[e[2]]],
                    todo \ {e})

\* List, lines 65-80
TkList(t) ==
    LET dropped == Collect([t EXCEPT !.listed = {}])
    IN  Collect(TkCopy(dropped, dropped.routes))

\* Count, lines 83-87: len(t.routes)
TkCount(t) == [t EXCEPT !.count = Cardinality({e[1] : e \in t.routes})]

T_Set ==
    /\ CanAlloc(tk, 1)
    /\ \E k \in TkKeys, id \in TkRouteIDs, addr \in TkAddrs : tk' = TkSet(tk, k, id, addr)
    /\ UNCHANGED <<clientVars, faults, sysVars, lifeVars, rid, cfg>>

T_Get ==
    /\ \E k \in TkKeys : tk' = TkGet(tk, k)
    /\ UNCHANGED <<clientVars, faults, sysVars, lifeVars, rid, cfg>>

T_Delete ==
    /\ \E k \in TkKeys : tk' = TkDelete(tk, k)
    /\ UNCHANGED <<clientVars, faults, sysVars, lifeVars, rid, cfg>>

T_List ==
    /\ CanAlloc([tk EXCEPT !.listed = {}], Cardinality(tk.routes))
    /\ tk' = TkList(tk)
    /\ UNCHANGED <<clientVars, faults, sysVars, lifeVars, rid, cfg>>

T_Count ==
    /\ tk' = TkCount(tk)
    /\ UNCHANGED <<clientVars, faults, sysVars, lifeVars, rid, cfg>>

\* the caller of Get writes to the RouteInfo it was given
T_MutateGot ==
    /\ tk.got # 0
    /\ tk' = [tk EXCEPT !.heap[tk.got].TargetAddr = "changed"]
    /\ UNCHANGED <<clientVars, faults, sysVars, lifeVars, rid, cfg>>

\* the caller of List writes to a RouteInfo of the map it was given, or
\* deletes a key of that map
T_MutateListed ==
    /\ \E e \in tk.listed :
        \/ tk' = [tk EXCEPT !.heap[e[2]].TargetAddr = "changed"]
        \/ tk' = Collect([tk EXCEPT !.listed = @ \ {e}])
    /\ UNCHANGED <<clientVars, faults, sysVars, lifeVars, rid, cfg>>

----------------------------------------------------------------------------
(* The watcher's callbacks and the EventHandler *)

\* the route id of a workload: derived from its stable identity
HandlerRouteID(deployment) == BuildRouteID(GetGitspaceIdentifier(deployment))

HandlerDomain(deployment) == deployment.name \o "." \o BaseDomain

\* an OnDeploymentAdd without the test of the Available condition
OnDeploymentAddUnready(deployment) ==
    IF deployment.replicas = NilReplicas \/ deployment.replicas # 1 THEN "none"
    ELSE "add"

\* OnDeploymentAdd, lines 52-73: what the callback goes on to do
OnDeploymentAdd(deployment) ==
    IF deployment.replicas = NilReplicas \/ deployment.replicas # 1 THEN "none"
    ELSE IF ~isDeploymentReady(deployment) THEN "none"
    ELSE "add"

\* OnDeploymentUpdate, lines 98-106
ReplicasOrZero(deployment) ==
    IF deployment.replicas = NilReplicas THEN 0 ELSE deployment.replicas

\* an update handler that treats a Deployment that stays ready as a new one
OnDeploymentUpdateNoChurn(oldDeployment, newDeployment) ==
    LET oldReplicas == ReplicasOrZero(oldDeployment)
        newReplicas == ReplicasOrZero(newDeployment)
        oldReady == isDeploymentReady(oldDeployment)
        newReady == isDeploymentReady(newDeployment)
    IN  IF oldReplicas = 1 /\ newReplicas # 1 THEN "delete"
        ELSE IF oldReplicas # 1 /\ newReplicas = 1 THEN OnDeploymentAdd(newDeployment)
        ELSE IF newReplicas # 1 THEN "none"
        ELSE IF oldReady /\ ~newReady THEN "delete"
        ELSE IF newReady THEN OnDeploymentAdd(newDeployment)
        ELSE "none"

\* OnDeploymentUpdate, lines 108-148
OnDeploymentUpdate(oldDeployment, newDeployment) ==
    LET oldReplicas == ReplicasOrZero(oldDeployment)
        newReplicas == ReplicasOrZero(newDeployment)
        oldReady == isDeploymentReady(oldDeployment)
        newReady == isDeploymentReady(newDeployment)
    IN  IF oldReplicas = 1 /\ newReplicas # 1 THEN "delete"
        ELSE IF oldReplicas # 1 /\ newReplicas = 1 THEN OnDeploymentAdd(newDeployment)
        ELSE IF newReplicas # 1 THEN "none"
        ELSE IF ~oldReady /\ newReady THEN OnDeploymentAdd(newDeployment)
        ELSE IF oldReady /\ ~newReady THEN "delete"
        ELSE IF oldReady /\ newReady THEN "churn"
        ELSE "none"

\* handleDeploymentAdd, handleDeploymentUpdate, handleDeploymentDelete
Dispatch(ev) ==
    IF ev.type = "add"
    THEN IF ev.new.replicas = NilReplicas \/ ev.new.replicas # 1 THEN "none"
         ELSE OnDeploymentAdd(ev.new)
    ELSE IF ev.type = "update" THEN OnDeploymentUpdate(ev.old, ev.new)
    ELSE "delete"

\* the Deployment object the callback works on
Subject(ev) == IF ev.type = "delete" THEN ev.old ELSE ev.new

CreateCall(id, domain, addr) == [op |-> "create", id |-> id, domain |-> domain, addr |-> addr]
DeleteCall(id) == [op |-> "delete", id |-> id, domain |-> "", addr |-> NoAddr]

Finish(result) ==
    /\ hpc' = "h_done"
    /\ hres' = result
    /\ UNCHANGED <<cr, hret, crSeen>>

\* createRoute, lines 196-217: port, route id and domain, then CreateRoute
EnterCreate(deployment, podIP, calls) ==
    LET got == GetPortFromAnnotation(deployment.port, DefaultPort)
        port == IF got.err THEN DefaultPort ELSE got.port
        routeID == HandlerRouteID(deployment)
        domain == HandlerDomain(deployment)
    IN  /\ CreateRouteEnter(routeID, domain, podIP, port, "h_set")
        /\ hcalls' = Append(calls, CreateCall(routeID, domain, TargetAddr(podIP, port)))

\* an informer that delivers a notification while a callback is in progress
H_BeginReentrant ==
    /\ hpc \notin {"cr_get", "cr_delete", "cr_post"}
    /\ queue # <<>>
    /\ LET ev == Head(queue)
           plan == Dispatch(ev)
       IN  /\ hev' = ev
           /\ queue' = Tail(queue)
           /\ hnext' = plan
           /\ IF plan = "none" THEN Finish("ok")
              ELSE /\ hpc' = IF plan = "delete" THEN "h_del" ELSE "h_find"
                   /\ hres' = "none"
                   /\ UNCHANGED <<cr, hret, crSeen>>
    /\ hlog' = <<>>
    /\ hcalls' = <<>>
    /\ hpod' = ""
    /\ hpatch' = "none"
    /\ hseen' = NoEntry
    /\ UNCHANGED <<engine, hop, engine0, lifeVars, drvVars, streak, listOut, cl, clOut, faults, tracker, deps, pods,
                   changes, rec, rcv>>

\* the informer delivers the next notification; the callback runs up to its
\* first call to the API server, the tracker or the engine
H_Begin ==
    /\ hpc = "idle"
    /\ queue # <<>>
    /\ LET ev == Head(queue)
           plan == Dispatch(ev)
       IN  /\ hev' = ev
           /\ queue' = Tail(queue)
           /\ hnext' = plan
           /\ IF plan = "none" THEN Finish("ok")
              ELSE /\ hpc' = IF plan = "delete" THEN "h_del" ELSE "h_find"
                   /\ hres' = "none"
                   /\ UNCHANGED <<cr, hret, crSeen>>
    /\ hlog' = <<>>
    /\ hcalls' = <<>>
    /\ hpod' = ""
    /\ hpatch' = "none"
    /\ hseen' = NoEntry
    /\ UNCHANGED <<engine, hop, engine0, lifeVars, drvVars, streak, listOut, cl, clOut, faults, tracker, deps, pods,
                   changes, rec, rcv>>

\* findReadyPod, lines 296-318, and in the ready -> ready branch of
\* OnDeploymentUpdate the comparison with the tracker, lines 155-182
H_FindReadyPod ==
    /\ hpc = "h_find"
    /\ \E up \in UpChoices :
        LET deployment == Subject(hev)
            pod == pods[hev.w]
            expectedAddr == TargetAddr(pod, getPortFromDeployment(deployment, DefaultPort))
            routeInfo == TrackerGet(tracker, DeploymentKey(deployment))
        IN  /\ faults' = FaultsAfter(up)
            /\ hseen' = IF up THEN routeInfo ELSE hseen
            /\ hpod' = IF up THEN pod ELSE hpod
            /\ IF ~up THEN Finish("err") /\ UNCHANGED <<hcalls, hnext>>
               ELSE IF pod = "" THEN Finish("ok") /\ UNCHANGED <<hcalls, hnext>>
               ELSE IF hnext = "add" \/ ~routeInfo.exists
               THEN EnterCreate(deployment, pod, hcalls) /\ hnext' = "create"
               ELSE IF routeInfo.TargetAddr # expectedAddr
               THEN /\ hpc' = "h_del"
                    /\ hnext' = "replace"
                    /\ UNCHANGED <<cr, hret, crSeen, hres, hcalls>>
               ELSE Finish("ok") /\ UNCHANGED <<hcalls, hnext>>
    /\ UNCHANGED <<engine, hlog, hop, engine0, lifeVars, drvVars, streak, listOut, cl, clOut, tracker, k8sVars, hev,
                   hpatch, rec, rcv>>

\* a deleteRoute that, finding no tracker entry, deletes the route id derived
\* from the Deployment
H_DeleteRouteDerived ==
    /\ hpc = "h_del"
    /\ LET deployment == Subject(hev)
           entry == TrackerGet(tracker, DeploymentKey(deployment))
           routeInfo == IF entry.exists THEN entry
                        ELSE [exists |-> TRUE, RouteID |-> HandlerRouteID(deployment),
                              TargetAddr |-> NoAddr]
       IN  \E up \in UpChoices :
                LET status == EngineDeleteStatus(engine, routeInfo.RouteID, up)
                    calls == Append(hcalls, DeleteCall(routeInfo.RouteID))
                IN  /\ hlog' = Append(hlog, Req("DELETE", routeInfo.RouteID, NoBody, status))
                    /\ engine' = IF up THEN EngineDelete(engine, routeInfo.RouteID)
                                 ELSE engine
                    /\ faults' = FaultsAfter(up)
                    /\ IF DeleteRouteOK(status)
                       THEN /\ hpc' = "h_untrack"
                            /\ hcalls' = calls
                            /\ UNCHANGED <<cr, hret, crSeen, hres>>
                       ELSE IF hnext = "replace"
                       THEN EnterCreate(deployment, hpod, calls)
                       ELSE Finish("err") /\ hcalls' = calls
    /\ UNCHANGED <<hop, engine0, lifeVars, drvVars, streak, listOut, cl, clOut, tracker, k8sVars, hev, hpod, hnext,
                   hpatch, hseen, rec, rcv>>

\* deleteRoute, lines 259-282: the tracker is asked, then DeleteRoute is called
H_DeleteRoute ==
    /\ hpc = "h_del"
    /\ LET deployment == Subject(hev)
           routeInfo == TrackerGet(tracker, DeploymentKey(deployment))
       IN  IF ~routeInfo.exists
           THEN /\ IF hnext = "replace"
                   THEN EnterCreate(deployment, hpod, hcalls)
                   ELSE Finish("ok") /\ UNCHANGED hcalls
                /\ UNCHANGED <<engine, hlog, faults>>
           ELSE \E up \in UpChoices :
                LET status == EngineDeleteStatus(engine, routeInfo.RouteID, up)
                    calls == Append(hcalls, DeleteCall(routeInfo.RouteID))
                IN  /\ hlog' = Append(hlog, Req("DELETE", routeInfo.RouteID, NoBody, status))
                    /\ engine' = IF up THEN EngineDelete(engine, routeInfo.RouteID)
                                 ELSE engine
                    /\ faults' = FaultsAfter(up)
                    /\ IF DeleteRouteOK(status)
                       THEN /\ hpc' = "h_untrack"
                            /\ hcalls' = calls
                            /\ UNCHANGED <<cr, hret, crSeen, hres>>
                       ELSE IF hnext = "replace"
                       THEN EnterCreate(deployment, hpod, calls)
                       ELSE Finish("err") /\ hcalls' = calls
    /\ UNCHANGED <<hop, engine0, lifeVars, drvVars, streak, listOut, cl, clOut, tracker, k8sVars, hev, hpod, hnext,
                   hpatch, hseen, rec, rcv>>

\* deleteRoute, lines 284-292: the tracker entry is removed
H_Untrack ==
    /\ hpc = "h_untrack"
    /\ tracker' = TrackerDelete(tracker, DeploymentKey(Subject(hev)))
    /\ IF hnext = "replace"
       THEN EnterCreate(Subject(hev), hpod, hcalls)
       ELSE Finish("ok") /\ UNCHANGED hcalls
    /\ UNCHANGED <<engine, hlog, hop, engine0, lifeVars, drvVars, streak, listOut, cl, clOut, faults, k8sVars, hev,
                   hpod, hnext, hpatch, hseen, rec, rcv>>

\* a createRoute that fails, and records nothing, when the annotations cannot
\* be written
H_AfterCreateStrict ==
    /\ hpc = "h_set"
    /\ IF hres = "ok"
       THEN \E up \in UpChoices :
            /\ tracker' = IF up THEN TrackerSet(tracker, DeploymentKey(Subject(hev)), cr.id,
                                                TargetAddr(cr.ip, cr.port))
                           ELSE tracker
            /\ hpatch' = IF up THEN "ok" ELSE "failed"
            /\ hres' = IF up THEN "ok" ELSE "err"
            /\ faults' = FaultsAfter(up)
       ELSE UNCHANGED <<tracker, hpatch, faults, hres>>
    /\ hpc' = "h_done"
    /\ UNCHANGED <<engine, cr, hret, hlog, hop, engine0, lifeVars, drvVars, crSeen, streak, listOut, cl, clOut,
                   k8sVars, hev, hpod, hnext, hcalls, hseen, rec, rcv>>

\* createRoute, lines 217-255: CreateRoute has returned; on success the tracker
\* records the route and the annotations are written back
H_AfterCreate ==
    /\ hpc = "h_set"
    /\ IF hres = "ok"
       THEN \E up \in UpChoices :
            /\ tracker' = TrackerSet(tracker, DeploymentKey(Subject(hev)), cr.id,
                                     TargetAddr(cr.ip, cr.port))
            /\ hpatch' = IF up THEN "ok" ELSE "failed"
            /\ faults' = FaultsAfter(up)
       ELSE UNCHANGED <<tracker, hpatch, faults>>
    /\ hpc' = "h_done"
    /\ UNCHANGED <<engine, cr, hret, hres, hlog, hop, engine0, lifeVars, drvVars, crSeen, streak, listOut, cl, clOut,
                   k8sVars, hev, hpod, hnext, hcalls, hseen, rec, rcv>>

\* the callback returns to the informer, which logs nothing more of it
H_Return ==
    /\ hpc = "h_done"
    /\ hpc' = "idle"
    /\ cr' = NoCall
    /\ hret' = "idle"
    /\ hres' = "none"
    /\ hlog' = <<>>
    /\ crSeen' = NoRoute
    /\ hev' = NoEvent
    /\ hpod' = ""
    /\ hnext' = "none"
    /\ hpatch' = "none"
    /\ hcalls' = <<>>
    /\ hseen' = NoEntry
    /\ UNCHANGED <<engine, hop, engine0, lifeVars, drvVars, streak, listOut, cl, clOut, faults, tracker, k8sVars,
                   rec, rcv>>

----------------------------------------------------------------------------
(* reconcileRoutesWithK8s *)

\* route_id.go, lines 24-34
ParseRouteID(routeID) ==
    IF HasPrefix(routeID, RouteIDPrefixNew)
    THEN LET gitspaceIdentifier == TrimPrefix(routeID, RouteIDPrefixNew)
         IN  IF gitspaceIdentifier = <<>>
             THEN [id |-> <<>>, err |-> TRUE]
             ELSE [id |-> gitspaceIdentifier, err |-> FALSE]
    ELSE [id |-> <<>>, err |-> TRUE]

\* a pass that expects a route for every Deployment with one replica
EligibleUnready(deployment) ==
    /\ deployment.exists
    /\ DesiredReplicaCount(deployment) = 1
    /\ GetGitspaceIdentifier(deployment) # <<>>

\* lines 644-665: the Deployments that are to have a route
Eligible(deployment) ==
    /\ deployment.exists
    /\ DesiredReplicaCount(deployment) = 1
    /\ isDeploymentReady(deployment)
    /\ GetGitspaceIdentifier(deployment) # <<>>

\* a pass that expects no route at all
ExpectedRoutesNone(ds) == {}

\* lines 667-668
ExpectedRoutes(ds) ==
    {BuildRouteID(GetGitspaceIdentifier(ds[w])) : w \in {x \in DOMAIN ds : Eligible(ds[x])}}

\* lines 670-672; the labels of the workloads are distinct, so no key is overwritten
IdentifierToKey(ds) ==
    LET ws == {x \in DOMAIN ds : Eligible(ds[x])}
    IN  [g \in {GetGitspaceIdentifier(ds[w]) : w \in ws} |->
            DeploymentKey(ds[CHOOSE w \in ws : GetGitspaceIdentifier(ds[w]) = g])]

\* lines 625-630
CaddyRoutes(routes) == {c.ID : c \in {x \in routes : IsManagedRouteID(x.ID)}}

HasDuplicates(e) == \E i, k \in 1..Len(e) : i # k /\ e[i].id = e[k].id /\ e[i].id # <<>>

Quiet == hpc = "idle" /\ queue = <<>> /\ rcv.pc = "done"

RecOff == [pc |-> "off", caddy |-> {}, keys |-> EmptyMap, todo |-> {}, err |-> FALSE,
           failed |-> FALSE, deletedCount |-> 0, quiet |-> FALSE, dup0 |-> FALSE]

\* a pass that takes a listing that failed for an empty one and goes on
R_ListRoutesSwallows ==
    /\ Alive
    /\ ppc = "select"
    /\ rec.pc = "off"
    /\ \E up \in UpChoices :
        /\ faults' = FaultsAfter(up)
        /\ rec' = [RecOff EXCEPT !.pc = "deps",
                                 !.caddy = IF up THEN CaddyRoutes(ListRoutes(engine)) ELSE {},
                                 !.quiet = Quiet,
                                 !.dup0 = HasDuplicates(engine)]
    /\ UNCHANGED <<clientVars, lifeVars, drvVars, tracker, k8sVars, handlerVars, rcv>>

\* lines 617-630: the pass lists the routes of the engine
R_ListRoutes ==
    /\ Alive
    /\ ppc = "select"
    /\ rec.pc = "off"
    /\ \E up \in UpChoices :
        /\ faults' = FaultsAfter(up)
        /\ rec' = IF up
                  THEN [RecOff EXCEPT !.pc = "deps",
                                      !.caddy = CaddyRoutes(ListRoutes(engine)),
                                      !.quiet = Quiet,
                                      !.dup0 = HasDuplicates(engine)]
                  ELSE [RecOff EXCEPT !.pc = "done", !.err = TRUE]
    /\ UNCHANGED <<clientVars, lifeVars, drvVars, tracker, k8sVars, handlerVars, rcv>>

\* a pass that also records in the tracker every eligible Deployment whose
\* route id is in the listing
R_ListDeploymentsRebuilds ==
    /\ Alive
    /\ rec.pc = "deps"
    /\ tracker' = [w \in Workloads |->
                      IF /\ Eligible(deps[w])
                         /\ BuildRouteID(GetGitspaceIdentifier(deps[w])) \in rec.caddy
                         /\ ~tracker[w].exists
                      THEN [exists |-> TRUE,
                            RouteID |-> BuildRouteID(GetGitspaceIdentifier(deps[w])),
                            TargetAddr |-> GetRoute(engine,
                                BuildRouteID(GetGitspaceIdentifier(deps[w]))).TargetAddr]
                      ELSE tracker[w]]
    /\ rec' = IF rec.caddy \ ExpectedRoutes(deps) = {}
              THEN [rec EXCEPT !.pc = "done", !.caddy = {}]
              ELSE [rec EXCEPT !.pc = "del",
                               !.caddy = {},
                               !.keys = IdentifierToKey(deps),
                               !.todo = rec.caddy \ ExpectedRoutes(deps)]
    /\ UNCHANGED <<clientVars, lifeVars, drvVars, faults, k8sVars, handlerVars, rcv>>

\* a pass that also posts a route for each expected id the engine lacks
R_ListDeploymentsCreates ==
    /\ Alive
    /\ rec.pc = "deps"
    /\ LET missing == {w \in Workloads : Eligible(deps[w]) /\ pods[w] # ""
                         /\ BuildRouteID(GetGitspaceIdentifier(deps[w])) \notin rec.caddy}
       IN  /\ engine' = IF missing = {} THEN engine
                        ELSE LET w == CHOOSE x \in missing : TRUE
                             IN  Append(engine,
                                        Route(BuildRouteID(GetGitspaceIdentifier(deps[w])),
                                              HandlerDomain(deps[w]),
                                              TargetAddr(pods[w], DefaultPort)))
           /\ rec' = IF rec.caddy \ ExpectedRoutes(deps) = {}
                     THEN [rec EXCEPT !.pc = "done", !.caddy = {}]
                     ELSE [rec EXCEPT !.pc = "del",
                                      !.caddy = {},
                                      !.keys = IdentifierToKey(deps),
                                      !.todo = rec.caddy \ ExpectedRoutes(deps)]
    /\ UNCHANGED <<engine0, lifeVars, drvVars, hpc, cr, hret, hres, hlog, hop, crSeen, streak, listOut, cl, clOut,
                   faults, tracker, k8sVars, handlerVars, rcv>>

\* lines 633-673: the pass lists the Deployments and computes the expected
\* routes; with no orphaned route the pass is complete
R_ListDeployments ==
    /\ Alive
    /\ rec.pc = "deps"
    /\ \E up \in UpChoices :
        /\ faults' = FaultsAfter(up)
        /\ rec' = IF up
                  THEN IF rec.caddy \ ExpectedRoutes(deps) = {}
                       THEN [rec EXCEPT !.pc = "done", !.caddy = {}]
                       ELSE [rec EXCEPT !.pc = "del",
                                        !.caddy = {},
                                        !.keys = IdentifierToKey(deps),
                                        !.todo = rec.caddy \ ExpectedRoutes(deps)]
                  ELSE [rec EXCEPT !.pc = "done", !.caddy = {}, !.err = TRUE]
    /\ UNCHANGED <<clientVars, lifeVars, drvVars, tracker, k8sVars, handlerVars, rcv>>

\* a pass that gives up at the first delete that fails
R_DeleteOrphanGivesUp ==
    /\ Alive
    /\ rec.pc = "del"
    /\ \E routeID \in rec.todo, up \in UpChoices :
        LET status == EngineDeleteStatus(engine, routeID, up)
            parsed == ParseRouteID(routeID)
            last == rec.todo = {routeID} \/ ~DeleteRouteOK(status)
        IN  /\ faults' = FaultsAfter(up)
            /\ engine' = IF up THEN EngineDelete(engine, routeID) ELSE engine
            /\ tracker' = IF DeleteRouteOK(status) /\ ~parsed.err
                             /\ parsed.id \in DOMAIN rec.keys
                          THEN TrackerDelete(tracker, rec.keys[parsed.id])
                          ELSE tracker
            /\ rec' = [rec EXCEPT !.pc = IF last THEN "done" ELSE "del",
                                  !.keys = IF last THEN EmptyMap ELSE @,
                                  !.todo = IF last THEN {} ELSE @ \ {routeID},
                                  !.failed = @ \/ ~DeleteRouteOK(status),
                                  !.deletedCount = IF DeleteRouteOK(status) THEN @ + 1
                                                   ELSE @]
    /\ UNCHANGED <<hpc, cr, hret, hres, hlog, hop, engine0, lifeVars, drvVars, crSeen, streak, listOut, cl, clOut,
                   k8sVars, handlerVars, rcv>>

\* lines 677-712: one orphaned route is deleted, and the tracker entry of the
\* Deployment the route id maps to, when there is one; after the last one the
\* pass is complete
R_DeleteOrphan ==
    /\ Alive
    /\ rec.pc = "del"
    /\ \E routeID \in rec.todo, up \in UpChoices :
        LET status == EngineDeleteStatus(engine, routeID, up)
            parsed == ParseRouteID(routeID)
        IN  /\ faults' = FaultsAfter(up)
            /\ engine' = IF up THEN EngineDelete(engine, routeID) ELSE engine
            /\ tracker' = IF DeleteRouteOK(status) /\ ~parsed.err
                             /\ parsed.id \in DOMAIN rec.keys
                          THEN TrackerDelete(tracker, rec.keys[parsed.id])
                          ELSE tracker
            /\ rec' = [rec EXCEPT !.pc = IF rec.todo = {routeID} THEN "done" ELSE "del",
                                  !.keys = IF rec.todo = {routeID} THEN EmptyMap ELSE @,
                                  !.todo = @ \ {routeID},
                                  !.failed = @ \/ ~DeleteRouteOK(status),
                                  !.deletedCount = IF DeleteRouteOK(status) THEN @ + 1
                                                   ELSE @]
    /\ UNCHANGED <<hpc, cr, hret, hres, hlog, hop, engine0, lifeVars, drvVars, crSeen, streak, listOut, cl, clOut,
                   k8sVars, handlerVars, rcv>>

\* runPeriodicReconciliation, lines 716-732: the pass is over until the next tick
R_Return ==
    /\ Alive
    /\ rec.pc = "done"
    /\ rec' = RecOff
    /\ UNCHANGED <<clientVars, lifeVars, drvVars, faults, tracker, k8sVars, handlerVars, rcv>>

----------------------------------------------------------------------------
(* recoverTrackerWithRetry and recoverTracker *)

maxRetries == 5
initialDelay == 2
maxDelay == 30

RcvStart == [pc |-> "health", attempt |-> 1, delay |-> initialDelay, routes |-> {},
             todo |-> {}, failed |-> FALSE]

\* a retry loop that doubles the delay without the cap
RetryUncapped(f) ==
    LET slept == IF f.attempt < maxRetries
                 THEN [f EXCEPT !.delay = 2 * @]
                 ELSE f
    IN  IF f.attempt + 1 <= maxRetries
        THEN [slept EXCEPT !.pc = "health", !.attempt = @ + 1, !.routes = {}, !.todo = {}]
        ELSE [slept EXCEPT !.pc = "done", !.attempt = @ + 1, !.routes = {}, !.todo = {},
                           !.failed = TRUE]

\* lines 473-481 and 510-517: the attempt has failed
Retry(f) ==
    LET slept == IF f.attempt < maxRetries
                 THEN [f EXCEPT !.delay = Min(2 * @, maxDelay)]
                 ELSE f
    IN  IF f.attempt + 1 <= maxRetries
        THEN [slept EXCEPT !.pc = "health", !.attempt = @ + 1, !.routes = {}, !.todo = {}]
        ELSE [slept EXCEPT !.pc = "done", !.attempt = @ + 1, !.routes = {}, !.todo = {},
                           !.failed = TRUE]

\* an attempt that goes on to the cleanup whatever the probe answered
Rcv_HealthCheckUnheeded ==
    /\ Alive
    /\ rcv.pc = "health"
    /\ \E up \in UpChoices :
        /\ faults' = FaultsAfter(up)
        /\ rcv' = [rcv EXCEPT !.pc = "cleanup"]
    /\ UNCHANGED <<clientVars, lifeVars, drvVars, tracker, k8sVars, handlerVars, rec>>

\* lines 463-483
Rcv_HealthCheck ==
    /\ Alive
    /\ rcv.pc = "health"
    /\ \E up \in UpChoices :
        /\ faults' = FaultsAfter(up)
        /\ rcv' = IF up THEN [rcv EXCEPT !.pc = "cleanup"] ELSE Retry(rcv)
    /\ UNCHANGED <<clientVars, lifeVars, drvVars, tracker, k8sVars, handlerVars, rec>>

\* lines 485-500: CleanupDuplicateRoutes, whose failure does not end the attempt
Rcv_CleanupStart ==
    /\ Alive
    /\ rcv.pc = "cleanup"
    /\ CleanupStart
    /\ rcv' = [rcv EXCEPT !.pc = "cleaning"]
    /\ UNCHANGED <<engine, hpc, cr, hret, hres, hlog, hop, engine0, lifeVars, drvVars, crSeen, streak, listOut,
                   tracker, k8sVars, handlerVars, rec>>

Rcv_CleanupStep ==
    /\ Alive
    /\ rcv.pc = "cleaning"
    /\ CleanupStep
    /\ UNCHANGED <<hpc, cr, hret, hres, hlog, hop, engine0, lifeVars, drvVars, crSeen, streak, listOut, tracker,
                   k8sVars, handlerVars, rec, rcv>>

\* recoverTracker, lines 544-557, called when CleanupDuplicateRoutes has returned
Rcv_ListRoutes ==
    /\ Alive
    /\ rcv.pc = "cleaning"
    /\ cl.pc = "done"
    /\ cl' = ClOff
    /\ clOut' = NoClOut
    /\ \E up \in UpChoices :
        /\ faults' = FaultsAfter(up)
        /\ rcv' = IF up
                  THEN [rcv EXCEPT !.pc = "deps",
                                   !.routes = {c \in ListRoutes(engine) : c.ID # <<>>}]
                  ELSE Retry(rcv)
    /\ UNCHANGED <<engine, hpc, cr, hret, hres, hlog, hop, engine0, lifeVars, drvVars, crSeen, streak, listOut,
                   tracker, k8sVars, handlerVars, rec>>

\* recoverTracker, lines 568-585: the Deployments whose route id is listed
Recoverable(ds, routes) ==
    {w \in DOMAIN ds :
        /\ GetGitspaceIdentifier(ds[w]) # <<>>
        /\ \E c \in routes : c.ID = BuildRouteID(GetGitspaceIdentifier(ds[w]))}

\* recoverTracker, lines 560-585; with nothing to recover the attempt is over
Rcv_ListDeployments ==
    /\ Alive
    /\ rcv.pc = "deps"
    /\ \E up \in UpChoices :
        /\ faults' = FaultsAfter(up)
        /\ rcv' = IF ~up THEN Retry(rcv)
                  ELSE IF Recoverable(deps, rcv.routes) = {}
                  THEN [rcv EXCEPT !.pc = "done", !.routes = {}]
                  ELSE [rcv EXCEPT !.pc = "set", !.todo = Recoverable(deps, rcv.routes)]
    /\ UNCHANGED <<clientVars, lifeVars, drvVars, tracker, k8sVars, handlerVars, rec>>

\* recoverTracker, lines 585-605: one tracker entry is written; after the last
\* one the attempt, and with it the recovery, is over
Rcv_Set ==
    /\ Alive
    /\ rcv.pc = "set"
    /\ \E w \in rcv.todo :
        LET route == CHOOSE c \in rcv.routes : c.ID = BuildRouteID(GitspaceLabel[w])
        IN  /\ tracker' = TrackerSet(tracker, w, route.ID, route.TargetAddr)
            /\ rcv' = IF rcv.todo = {w}
                      THEN [rcv EXCEPT !.pc = "done", !.todo = {}, !.routes = {}]
                      ELSE [rcv EXCEPT !.todo = @ \ {w}]
    /\ UNCHANGED <<clientVars, lifeVars, drvVars, faults, k8sVars, handlerVars, rec>>

----------------------------------------------------------------------------
(* The controller with the cluster and the engine *)

IdC == BuildRouteID(<<"c">>)
Static == Route(<<>>, "static", NoAddr)
Addr6b == TargetAddr("10.0.0.6", 9000)

\* what the engine holds when the module starts: routes of the Caddyfile and
\* what an earlier run of the module left behind
InitEngines ==
    { <<Static, Route(IdA, "w1.dev", Addr5)>>,
      <<Route(IdA, "w1.dev", Addr5), Route(IdA, "w1.dev", Addr6)>>,
      <<Route(IdC, "gone.dev", Addr5), Route(IdB, "w2.dev", Addr6b)>> }

InitSystem ==
    /\ tracker = [w \in Workloads |-> NoEntry]
    /\ deps = [w \in Workloads |-> NoDep]
    /\ pods = [w \in Workloads |-> ""]
    /\ queue = <<>>
    /\ changes = 0
    /\ hev = NoEvent
    /\ hpod = ""
    /\ hnext = "none"
    /\ hpatch = "none"
    /\ hcalls = <<>>
    /\ hseen = NoEntry
    /\ rec = RecOff
    /\ rcv = RcvStart

Init ==
    /\ engine \in InitEngines
    /\ engine0 = engine
    /\ InitLife
    /\ InitDrv
    /\ faults = 0
    /\ InitClient
    /\ InitSystem

Next ==
    \/ K8sAdd
    \/ K8sUpdate
    \/ K8sPodChange
    \/ K8sResync
    \/ K8sDelete
    \/ H_Begin
    \/ H_FindReadyPod
    \/ H_DeleteRoute
    \/ H_Untrack
    \/ CreateRouteGet
    \/ CreateRouteDelete
    \/ CreateRoutePost
    \/ H_AfterCreate
    \/ H_Return
    \/ R_ListRoutes
    \/ R_ListDeployments
    \/ R_DeleteOrphan
    \/ R_Return
    \/ Rcv_HealthCheck
    \/ Rcv_CleanupStart
    \/ Rcv_CleanupStep
    \/ Rcv_ListRoutes
    \/ Rcv_ListDeployments
    \/ Rcv_Set

Spec == Init /\ [][Next]_vars

InitCreate ==
    /\ engine \in HeldListings
    /\ engine0 = engine
    /\ InitLife
    /\ InitDrv
    /\ faults = 0
    /\ InitClient
    /\ InitSystem

InitList ==
    /\ engine \in RawListings
    /\ engine0 = engine
    /\ InitLife
    /\ InitDrv
    /\ faults = 0
    /\ InitClient
    /\ InitSystem

NextCreate ==
    \/ DriverCreateRoute
    \/ CreateRouteGet
    \/ CreateRouteDelete
    \/ CreateRoutePost
    \/ DriverDeleteRoute

NextList ==
    \/ DriverListRoutes
    \/ DriverCleanup
    \/ DriverCleanupStep
    \/ DriverCleanupDone

\* the module starts in a cluster that has a Deployment already, and the
\* engine and the API server may fail RecoveryFaults times: faults counts
\* from that far below MaxFaults
InitRecovery ==
    /\ engine \in InitEngines
    /\ engine0 = engine
    /\ InitLife
    /\ InitDrv
    /\ faults = MaxFaults - RecoveryFaults
    /\ InitClient
    /\ tracker = [w \in Workloads |-> NoEntry]
    /\ deps = [w \in Workloads |-> IF w = "w1" THEN Dep(w, 1, TRUE) ELSE NoDep]
    /\ pods = [w \in Workloads |-> IF w = "w1" THEN "10.0.0.6" ELSE ""]
    /\ queue = <<>>
    /\ changes = 0
    /\ hev = NoEvent
    /\ hpod = ""
    /\ hnext = "none"
    /\ hpatch = "none"
    /\ hcalls = <<>>
    /\ hseen = NoEntry
    /\ rec = RecOff
    /\ rcv = RcvStart

NextRecovery ==
    \/ Rcv_HealthCheck
    \/ Rcv_CleanupStart
    \/ Rcv_CleanupStep
    \/ Rcv_ListRoutes
    \/ Rcv_ListDeployments
    \/ Rcv_Set
    \/ K8sResync
    \/ H_Begin
    \/ H_FindReadyPod
    \/ H_DeleteRoute
    \/ H_Untrack
    \/ CreateRouteGet
    \/ CreateRouteDelete
    \/ CreateRoutePost
    \/ H_AfterCreate
    \/ H_Return
    \/ R_ListRoutes
    \/ R_ListDeployments
    \/ R_DeleteOrphan
    \/ R_Return

\* startup in a cluster and with an engine that fail often
SpecRecovery == InitRecovery /\ [][NextRecovery]_vars

\* a second Deployment of the gitspace of w1: the name of a Deployment carries
\* an instance suffix, the label "gitspace" is that of the configuration
SecondInstance == [Dep("w2", 1, TRUE) EXCEPT !.label = GitspaceLabel["w1"]]

\* the module has started and recovered an empty tracker in a cluster that
\* runs two Deployments of one gitspace; the engine holds the Caddyfile route
\* and may hold the route of a gitspace that is gone
InitShared ==
    /\ engine \in {<<Static>>, <<Static, Route(IdC, "gone.dev", Addr5)>>}
    /\ engine0 = engine
    /\ InitLife
    /\ InitDrv
    /\ faults = 0
    /\ InitClient
    /\ tracker = [w \in Workloads |-> NoEntry]
    /\ deps = [w \in Workloads |-> IF w = "w1" THEN Dep(w, 1, TRUE) ELSE SecondInstance]
    /\ pods = [w \in Workloads |-> IF w = "w1" THEN "10.0.0.5" ELSE "10.0.0.6"]
    /\ queue = <<>>
    /\ changes = 0
    /\ hev = NoEvent
    /\ hpod = ""
    /\ hnext = "none"
    /\ hpatch = "none"
    /\ hcalls = <<>>
    /\ hseen = NoEntry
    /\ rec = RecOff
    /\ rcv = [RcvStart EXCEPT !.pc = "done"]

NextShared ==
    \/ K8sResync
    \/ K8sDelete
    \/ H_Begin
    \/ H_FindReadyPod
    \/ H_DeleteRoute
    \/ H_Untrack
    \/ CreateRouteGet
    \/ CreateRouteDelete
    \/ CreateRoutePost
    \/ H_AfterCreate
    \/ H_Return
    \/ R_ListRoutes
    \/ R_ListDeployments
    \/ R_DeleteOrphan
    \/ R_Return

\* the handler and the reconciler with two Deployments of one gitspace
SpecShared == InitShared /\ [][NextShared]_vars

\* K8sRouter.Stop, lines 429-431: kr.cancel()
Stop_Cancel ==
    /\ Alive
    /\ spc = "run"
    /\ ctxDone' = TRUE
    /\ spc' = "cancelled"
    /\ UNCHANGED <<clientVars, faults, sysVars, drvVars, stopCh, wpc, ppc, isReady>>

\* K8sRouter.Stop, lines 433-435: kr.watcher.Stop(), which closes the stop channel
Stop_WatcherStop ==
    /\ Alive
    /\ spc = "cancelled"
    /\ stopCh' = Close(stopCh)
    /\ isReady' = Stopped(stopCh, isReady)
    /\ spc' = "stopped"
    /\ UNCHANGED <<clientVars, faults, sysVars, drvVars, ctxDone, wpc, ppc>>

\* Watcher.Start, lines 79-88: WaitForCacheSync returns; it gives up after 30
\* seconds or when the context is cancelled, and Start returns the error
W_CacheSync ==
    /\ Alive
    /\ wpc = "sync"
    /\ \E synced \in BOOLEAN :
        wpc' = IF synced THEN "mark" ELSE "failed"
    /\ UNCHANGED <<clientVars, faults, sysVars, drvVars, ctxDone, stopCh, spc, ppc, isReady>>

\* Watcher.Start, lines 91-93: w.ready = true
W_MarkReady ==
    /\ Alive
    /\ wpc = "mark"
    /\ isReady' = TRUE
    /\ wpc' = "select"
    /\ UNCHANGED <<clientVars, faults, sysVars, drvVars, ctxDone, stopCh, spc, ppc>>

\* Watcher.Start: the select on ctx.Done() and w.stopCh; when both are ready
\* either case is taken
W_Select ==
    /\ Alive
    /\ wpc = "select"
    /\ \/ ctxDone /\ wpc' = "stop"
       \/ stopCh = "closed" /\ wpc' = "returned"
    /\ UNCHANGED <<clientVars, faults, sysVars, drvVars, ctxDone, stopCh, spc, ppc, isReady>>

\* Watcher.Start, case <-ctx.Done(): w.Stop(), then return
W_Stop ==
    /\ Alive
    /\ wpc = "stop"
    /\ stopCh' = Close(stopCh)
    /\ isReady' = Stopped(stopCh, isReady)
    /\ wpc' = "returned"
    /\ UNCHANGED <<clientVars, faults, sysVars, drvVars, ctxDone, spc, ppc>>

\* runPeriodicReconciliation, lines 727-729: case <-kr.ctx.Done(); the ticker's
\* case is R_ListRoutes, and when both are ready either is taken
P_Exit ==
    /\ Alive
    /\ ppc = "select"
    /\ rec.pc = "off"
    /\ ctxDone
    /\ ppc' = "exited"
    /\ UNCHANGED <<clientVars, faults, sysVars, drvVars, ctxDone, stopCh, spc, wpc, isReady>>

\* the module is stopped while its goroutines run, in a cluster that has a
\* Deployment already
InitStop ==
    /\ engine \in InitEngines
    /\ engine0 = engine
    /\ InitLife
    /\ InitDrv
    /\ faults = 0
    /\ InitClient
    /\ tracker = [w \in Workloads |-> NoEntry]
    /\ deps = [w \in Workloads |-> IF w = "w1" THEN Dep(w, 1, TRUE) ELSE NoDep]
    /\ pods = [w \in Workloads |-> IF w = "w1" THEN "10.0.0.6" ELSE ""]
    /\ queue = <<>>
    /\ changes = 0
    /\ hev = NoEvent
    /\ hpod = ""
    /\ hnext = "none"
    /\ hpatch = "none"
    /\ hcalls = <<>>
    /\ hseen = NoEntry
    /\ rec = RecOff
    /\ rcv = RcvStart

NextStop ==
    \/ Stop_Cancel
    \/ Stop_WatcherStop
    \/ W_CacheSync
    \/ W_MarkReady
    \/ W_Select
    \/ W_Stop
    \/ P_Exit
    \/ Rcv_HealthCheck
    \/ Rcv_CleanupStart
    \/ Rcv_CleanupStep
    \/ Rcv_ListRoutes
    \/ Rcv_ListDeployments
    \/ Rcv_Set
    \/ R_ListRoutes
    \/ R_ListDeployments
    \/ R_DeleteOrphan
    \/ R_Return

\* K8sRouter.Stop against the goroutines K8sRouter.Start began
SpecStop == InitStop /\ [][NextStop]_vars

\* BuildRouteID, then ParseRouteID of what it returned
RID_Build ==
    /\ rid.pc = "start"
    /\ rid' = [rid EXCEPT !.pc = "built", !.built = BuildRouteID(rid.x)]
    /\ UNCHANGED <<clientVars, faults, sysVars, lifeVars, tk, cfg>>

RID_Parse ==
    /\ rid.pc = "built"
    /\ rid' = [rid EXCEPT !.pc = "parsed", !.parsed = ParseRouteID(rid.built)]
    /\ UNCHANGED <<clientVars, faults, sysVars, lifeVars, tk, cfg>>

\* a route id is built from any identifier and parsed again
InitRouteID ==
    /\ engine = <<>>
    /\ engine0 = engine
    /\ InitLife
    /\ tk = NoTracker
    /\ rid \in {[NoRid EXCEPT !.pc = "start", !.x = x] : x \in Identifiers}
    /\ cfg = NoCfg
    /\ faults = 0
    /\ InitClient
    /\ InitSystem

NextRouteID ==
    \/ RID_Build
    \/ RID_Parse

SpecRouteID == InitRouteID /\ [][NextRouteID]_vars

\* Validate on the Config as loaded
CFG_Validate ==
    /\ cfg.pc = "loaded"
    /\ cfg' = [cfg EXCEPT !.pc = "once", !.first = Validate(cfg.given)]
    /\ UNCHANGED <<clientVars, faults, sysVars, lifeVars, tk, rid>>

\* Validate again, on what the first Validate left
CFG_ValidateAgain ==
    /\ cfg.pc = "once"
    /\ cfg' = [cfg EXCEPT !.pc = "twice", !.second = Validate(cfg.first.c)]
    /\ UNCHANGED <<clientVars, faults, sysVars, lifeVars, tk, rid>>

\* any Config is loaded and validated twice
InitConfig ==
    /\ engine = <<>>
    /\ engine0 = engine
    /\ InitLife
    /\ tk = NoTracker
    /\ rid = NoRid
    /\ cfg \in {[NoCfg EXCEPT !.pc = "loaded", !.given = c] : c \in Configs}
    /\ faults = 0
    /\ InitClient
    /\ InitSystem

NextConfig ==
    \/ CFG_Validate
    \/ CFG_ValidateAgain

SpecConfig == InitConfig /\ [][NextConfig]_vars

\* a tracker in the hands of its callers; the mutex makes each operation atomic
InitTracker ==
    /\ engine = <<>>
    /\ engine0 = engine
    /\ InitLife
    /\ InitDrv
    /\ faults = 0
    /\ InitClient
    /\ InitSystem

NextTracker ==
    \/ T_Set
    \/ T_Get
    \/ T_Delete
    \/ T_List
    \/ T_Count
    \/ T_MutateGot
    \/ T_MutateListed

SpecTracker == InitTracker /\ [][NextTracker]_vars

\* the driver of CreateRoute and DeleteRoute
SpecCreate == InitCreate /\ [][NextCreate]_vars

\* the driver of ListRoutes and CleanupDuplicateRoutes
SpecList == InitList /\ [][NextList]_vars


----------------------------------------------------------------------------
(* Properties of the Route Table Client *)

Methods(log) == [i \in 1..Len(log) |-> log[i].m]

DriverReturned == hop = "create" /\ hpc = "idle"

SeenMatches ==
    crSeen.found /\ crSeen.Domain = cr.domain /\ crSeen.TargetAddr = <<cr.ip, cr.port>>

\* C4: N >= 1 identical CreateRoute calls in a row that start with no route
\* for the id send exactly one POST in total, and a call that finds a route with
\* the same hostname and target address succeeds without a POST or a DELETE.
C4_CreateRouteIdempotent ==
    /\ (DriverReturned /\ streak.n >= 1) => streak.posts = 1
    /\ (DriverReturned /\ SeenMatches) =>
           hres = "ok" /\ Posts(hlog) = 0 /\ Deletes(hlog) = 0

C4_Witness == DriverReturned /\ streak.n >= 2 /\ streak.posts = 1 /\ SeenMatches

\* C5: a CreateRoute call that finds a route with other contents sends one
\* DELETE for the id and, once that has succeeded, one POST (none when the
\* DELETE fails); a call that finds no route sends one POST and no DELETE; a
\* POST never precedes a DELETE.
C5_ReplaceDeletesThenCreates ==
    /\ hop = "create" =>
           /\ Posts(hlog) <= 1 /\ Deletes(hlog) <= 1
           /\ \A i, j \in 1..Len(hlog) :
                  (hlog[i].m = "DELETE" /\ hlog[j].m = "POST") =>
                      i < j /\ DeleteRouteOK(hlog[i].st)
           /\ \A i \in 1..Len(hlog) : hlog[i].id = cr.id
    /\ (DriverReturned /\ crSeen.found /\ ~SeenMatches) =>
           Methods(hlog) = IF DeleteRouteOK(hlog[2].st)
                           THEN <<"GET", "DELETE", "POST">>
                           ELSE <<"GET", "DELETE">>
    /\ (DriverReturned /\ hlog # <<>> /\ hlog[1].st = 404) =>
           Methods(hlog) = <<"GET", "POST">>

C5_Witness ==
    /\ DriverReturned /\ hres = "ok" /\ crSeen.found /\ ~SeenMatches
    /\ crSeen.Domain = cr.domain
    /\ engine[Len(engine)] = Route(cr.id, cr.domain, <<cr.ip, cr.port>>)

\* C6: DeleteRoute of an id the engine does not hold (the engine answers 404)
\* returns success and leaves the engine's routes as they were.
C6_DeleteAbsentIsSuccess ==
    [][(hop' = "delete" /\ Len(hlog') = 1 /\ hlog'[1].st = 404)
           => (hres' = "ok" /\ engine' = engine)]_vars

C6_Witness ==
    hop = "delete" /\ hres = "ok" /\ Len(hlog) = 1 /\ hlog[1].st = 404 /\ engine # <<>>

\* C7: for every managed id of the raw listing ListRoutes returns exactly one
\* descriptor, carrying the configuration of the id's last occurrence, and it
\* returns nothing else.
C7_ListRoutesKeepsLast ==
    (listOut.done /\ ~listOut.err) =>
        LET raw == listOut.raw
        IN  /\ \A id \in ManagedIDs(raw) :
                  LET last == raw[LastIndex(raw, id, Len(raw))]
                  IN  {c \in listOut.routes : c.ID = id}
                          = {[ID |-> id, Domain |-> last.host, TargetAddr |-> last.dial]}
            /\ \A c \in listOut.routes : c.ID \in ManagedIDs(raw)

C7_Witness ==
    /\ listOut.done /\ ~listOut.err
    /\ Count(listOut.raw, IdA) = 3
    /\ listOut.raw[1].dial # listOut.raw[Len(listOut.raw)].dial
    /\ listOut.raw[1].id = IdA /\ listOut.raw[Len(listOut.raw)].id = IdA

DeletesOf(dels, id) == Cardinality({i \in 1..Len(dels) : dels[i] = id})

\* C8: when every delete succeeds, CleanupDuplicateRoutes sends c deletes for
\* each managed id that occurs c > 1 times in the raw listing, none for any
\* other id, and returns the number of deletes sent.
C8_CleanupDeletesEveryCopy ==
    (clOut.done /\ ~clOut.err) =>
        /\ \A i \in 1..Len(clOut.raw) :
               LET id == clOut.raw[i].id
                   c == Count(clOut.raw, id)
               IN  DeletesOf(clOut.dels, id)
                       = IF IsManagedRouteID(id) /\ c > 1 THEN c ELSE 0
        /\ \A i \in 1..Len(clOut.dels) : Count(clOut.raw, clOut.dels[i]) > 1
        /\ clOut.count = Len(clOut.dels)

C8_Witness ==
    /\ clOut.done /\ ~clOut.err
    /\ Count(clOut.raw, IdA) = 3 /\ Count(clOut.raw, IdB) = 1
    /\ clOut.count = 3
    /\ ~EngineHas(engine, IdA) /\ EngineHas(engine, IdB)

----------------------------------------------------------------------------
(* Properties of the controller *)

\* what the specification calls id(w), host(w) and the port of w
RouteIDOf(w) == BuildRouteID(GitspaceLabel[w])
HostOf(w) == w \o "." \o BaseDomain
PortOf(w) == IF PortAnnotation[w].exists THEN PortAnnotation[w].value ELSE DefaultPort

TrackerEntry(id, addr) == [exists |-> TRUE, RouteID |-> id, TargetAddr |-> addr]

\* the engine answered every request of the callback
EngineAnswered == \A i \in 1..Len(hlog) : hlog[i].st \in {200, 404}

\* a step with which a callback of the EventHandler has done all it does
HandlerCompletes == hpc # "h_done" /\ hpc' = "h_done"

\* the callback was given a Deployment that declares one replica and is
\* available, it found the ready Pod, and the tracker had no entry for it
C9_Case ==
    /\ hev.type \in {"add", "update"}
    /\ hev.new.replicas = 1 /\ hev.new.ready
    /\ hpod # ""
    /\ ~hseen.exists

C9_Effect ==
    LET w == hev.w
        a == TargetAddr(hpod, PortOf(w))
    IN  /\ hcalls = <<CreateCall(RouteIDOf(w), HostOf(w), a)>>
        /\ EngineAnswered => hres = "ok"
        /\ hres = "ok" => tracker[w] = TrackerEntry(RouteIDOf(w), a)

\* C9: when a workload w becomes eligible with a ready Pod at address a while
\* the tracker has no entry for w, the handler makes exactly one call of
\* CreateRoute, for (id(w), host(w), a), and no call of DeleteRoute; when the
\* engine answers every request the call succeeds, and when the call succeeds
\* the tracker holds w -> (id(w), a) as the callback completes.
C9_EligibleWorkloadGetsRoute == [][(HandlerCompletes /\ C9_Case') => C9_Effect']_vars

C9_Witness ==
    /\ hpc = "h_done" /\ C9_Case /\ C9_Effect
    /\ hres = "ok"
    /\ GetRoute(engine, RouteIDOf(hev.w)).found
    /\ Methods(hlog) = <<"GET", "POST">>

\* an update of a Deployment that stays eligible, whose ready Pod is now at an
\* address other than the one the tracker holds for it
C10_Case ==
    /\ hev.type = "update"
    /\ hev.old.replicas = 1 /\ hev.old.ready
    /\ hev.new.replicas = 1 /\ hev.new.ready
    /\ hpod # ""
    /\ hseen.exists
    /\ hseen.TargetAddr # TargetAddr(hpod, PortOf(hev.w))

C10_Effect ==
    LET w == hev.w
        a == TargetAddr(hpod, PortOf(w))
    IN  /\ hcalls = <<DeleteCall(RouteIDOf(w)), CreateCall(RouteIDOf(w), HostOf(w), a)>>
        /\ hlog # <<>> /\ hlog[1].m = "DELETE" /\ hlog[1].id = RouteIDOf(w)
        /\ EngineAnswered => hres = "ok"
        /\ hres = "ok" => tracker[w] = TrackerEntry(RouteIDOf(w), a)

\* C10: when the ready Pod of an eligible workload w changes address from a to
\* a', the handler calls DeleteRoute for id(w) once, and only then CreateRoute
\* for (id(w), host(w), a'), once; when the engine answers every request that
\* call succeeds, and when it succeeds the tracker holds the address a' for w
\* as the callback completes.
C10_AddressChangeReplacesRoute == [][(HandlerCompletes /\ C10_Case') => C10_Effect']_vars

C10_Witness ==
    /\ hpc = "h_done" /\ C10_Case /\ C10_Effect
    /\ hres = "ok"
    /\ Methods(hlog) = <<"DELETE", "GET", "POST">>
    /\ GetRoute(engine, RouteIDOf(hev.w)).TargetAddr = TargetAddr(hpod, PortOf(hev.w))

\* C3: the controller never brings the engine to hold two descriptors with the
\* same route id: an engine that held none when the controller started holds
\* none after any of its event handlers, startup recovery and reconciliation
\* passes, and no id is ever held more often than it was held at the start.
C3_NoDuplicateRouteIDs ==
    /\ ~HasDuplicates(engine0) => ~HasDuplicates(engine)
    /\ \A i \in 1..Len(engine) :
        (engine[i].id # <<>> /\ Count(engine0, engine[i].id) >= 1) =>
            Count(engine, engine[i].id) <= Count(engine0, engine[i].id)

\* a handler has replaced the route of a workload in an engine that never
\* held a duplicate, and a reconciliation pass has deleted an orphan
C3_Witness ==
    /\ ~HasDuplicates(engine0)
    /\ hpc = "h_done" /\ hres = "ok"
    /\ Methods(hlog) = <<"DELETE", "GET", "POST">>
    /\ Count(engine, cr.id) = 1
    /\ Count(engine0, cr.id) = 1

\* the workloads that are to have a route: desired replica count 1 (which is
\* the count of a Deployment that leaves it unset) and available
ShouldHaveRoute(w) ==
    /\ deps[w].exists
    /\ deps[w].replicas \in {1, NilReplicas}
    /\ deps[w].ready

DerivedIDs == {RouteIDOf(w) : w \in {x \in Workloads : ShouldHaveRoute(x)}}

\* a reconciliation pass has completed without an error; since before it
\* began no event was delivered or pending and no handler or recovery ran, and
\* the engine held no route id twice when it began
SettledPassDone == rec.pc = "done" /\ rec.quiet /\ ~rec.err /\ ~rec.failed /\ ~rec.dup0

\* C2: whenever no handler call, recovery or reconciliation pass is in
\* progress, the tracker has no entry for a workload key if and only if the
\* engine holds no route for that workload.  The states looked at are those
\* in which a reconciliation pass has just completed without an error, with
\* no event delivered or pending and no handler or recovery running since
\* before it began: what the pass leaves is what the next idle state holds.
C2_TrackerEntryIffRoute ==
    SettledPassDone =>
        \A w \in Workloads : ~tracker[w].exists <=> ~EngineHas(engine, RouteIDOf(w))

C11_Case ==
    \/ hev.type = "delete"
    \/ /\ hev.type = "update"
       /\ hev.old.replicas = 1
       /\ \/ hev.new.replicas # 1
          \/ hev.old.ready /\ ~hev.new.ready

\* C11: when a workload that has a tracker entry is deleted, has its replica
\* count move from 1 to another value or becomes not ready, the handler goes
\* to deleteRoute, which calls DeleteRoute exactly once, for the tracked route
\* id, and nothing else; the callback succeeds exactly when the engine answers
\* that request with 2xx or 404, and then the tracker entry is removed.
C11_RemovalDeletesTrackedRoute ==
    [][/\ (hpc = "idle" /\ hpc' # "idle" /\ C11_Case') => hpc' = "h_del"
       /\ (hpc = "h_del" /\ hpc' # "h_del" /\ C11_Case /\ tracker[hev.w].exists) =>
            /\ hcalls' = <<DeleteCall(tracker[hev.w].RouteID)>>
            /\ Methods(hlog') = <<"DELETE">>
            /\ hlog'[1].id = tracker[hev.w].RouteID
       /\ (HandlerCompletes /\ C11_Case' /\ hcalls' # <<>>) =>
            /\ Len(hcalls') = 1 /\ hcalls'[1].op = "delete"
            /\ Len(hlog') = 1
            /\ hres' = "ok" <=> DeleteRouteOK(hlog'[1].st)
            /\ hres' = "ok" => ~tracker'[hev'.w].exists
            /\ hres' # "ok" => tracker'[hev'.w] = tracker[hev.w]]_vars

C11_Witness ==
    /\ hpc = "h_done" /\ C11_Case
    /\ hev.type = "update" /\ hev.new.replicas = 2
    /\ hcalls = <<DeleteCall(RouteIDOf(hev.w))>>
    /\ hlog[1].st = 200
    /\ hres = "ok"
    /\ ~tracker[hev.w].exists
    /\ ~EngineHas(engine, RouteIDOf(hev.w))

\* the tracker entries that record the route id
TrackedBy(id) == {w \in Workloads : tracker[w].exists /\ tracker[w].RouteID = id}

\* C12: in a reconciliation pass, for a managed route of the engine whose id
\* is not in the expected set, exactly one DeleteRoute call is made for that
\* id, and when it succeeds every tracker entry that records the route is
\* removed.
C12_OrphanCleanupUntracks ==
    [][(rec.pc = "del" /\ rec'.todo # rec.todo) =>
          /\ Cardinality(rec.todo \ rec'.todo) = 1
          /\ \A id \in rec.todo \ rec'.todo :
                /\ engine' \in {engine, EngineDelete(engine, id)}
                /\ rec'.deletedCount > rec.deletedCount =>
                      \A w \in TrackedBy(id) : ~tracker'[w].exists]_vars

\* a step of the reconciliation pass
PassStep == rec'.pc # rec.pc \/ rec'.todo # rec.todo

\* how often the route occurs in the listing
Occurrences(e, route) == Cardinality({i \in 1..Len(e) : e[i] = route})

\* C13: a reconciliation pass creates no route: each of its steps sends no
\* POST and leaves the engine as it was or with one route deleted, so that
\* every route of the engine after the step was there before it.
C13_ReconcilerNeverCreates ==
    [][PassStep =>
          /\ hlog' = hlog
          /\ Len(engine') <= Len(engine)
          /\ \A i \in 1..Len(engine') :
                Occurrences(engine', engine'[i]) <= Occurrences(engine, engine'[i])]_vars

\* a settled pass has deleted an orphaned route and completed, while an
\* eligible workload is still without a route
C13_Witness ==
    /\ SettledPassDone
    /\ rec.deletedCount >= 1
    /\ \E w \in Workloads : ShouldHaveRoute(w) /\ ~EngineHas(engine, RouteIDOf(w))

\* the eligible workloads whose route the engine holds, and which the tracker
\* does not know
Untracked ==
    {w \in Workloads : /\ ShouldHaveRoute(w)
                       /\ EngineHas(engine, RouteIDOf(w))
                       /\ ~tracker[w].exists}

\* C14, as stated: the tracker is rebuilt on reconciliation: after a pass has
\* completed successfully, every eligible workload whose route id is in the
\* engine's listing has a tracker entry.
C14_PassRebuildsTracker == SettledPassDone => Untracked = {}

\* C14, amended: the tracker is rebuilt from the engine's listing at startup
\* only.  A reconciliation pass writes no tracker entry: each of its steps
\* leaves an entry as it was or removes it, and an entry is written only by
\* createRoute of the event handler and by recoverTracker.
C14_OnlyStartupRebuildsTracker ==
    [][/\ PassStep => \A w \in Workloads : tracker'[w] \in {tracker[w], NoEntry}
       /\ \A w \in Workloads :
            (tracker'[w].exists /\ tracker'[w] # tracker[w]) =>
                \/ hpc = "h_set" /\ hpc' = "h_done" /\ hev.w = w
                \/ rcv.pc = "set" /\ rcv'.todo = rcv.todo \ {w}]_vars

\* a settled pass has completed and left an eligible workload whose route is
\* in the engine without a tracker entry, next to one that has an entry
C14_Witness ==
    /\ SettledPassDone
    /\ Untracked # {}
    /\ \E w \in Workloads : tracker[w].exists /\ ShouldHaveRoute(w)

\* C15: a successful recoverTracker records w -> (id, addr) only for a
\* workload w that is eligible when the Deployments are listed, has a
\* gitspace identifier and whose route id is in the deduplicated listing of
\* the engine, and addr is the target address of that descriptor.
C15_RecoveryRecordsEligibleOnly ==
    [][/\ (rcv.pc = "deps" /\ rcv'.pc = "set") =>
            \A w \in rcv'.todo :
                /\ ShouldHaveRoute(w)
                /\ GitspaceLabel[w] # <<>>
                /\ \E c \in rcv.routes : c.ID = RouteIDOf(w)
       /\ (rcv.pc = "set" /\ rcv'.todo # rcv.todo) =>
            \A w \in rcv.todo \ rcv'.todo :
                \E c \in rcv.routes : /\ c.ID = RouteIDOf(w)
                                      /\ tracker'[w] = TrackerEntry(c.ID, c.TargetAddr)]_vars

RECURSIVE Doubled(_, _)
Doubled(d, n) == IF n = 0 THEN d ELSE Doubled(2 * d, n - 1)

\* the delay after the given number of failed attempts: 2s doubled that
\* often, 30s at most; the fifth failure is followed by no wait
DelayAfter(failures) == Min(Doubled(2, Min(failures, 4)), 30)

\* the attempts of recoverTrackerWithRetry that have failed
FailedAttempts == rcv.attempt - 1

\* C16: recoverTrackerWithRetry makes at most 5 attempts; the delay it waits
\* after a failed attempt starts at 2s, doubles with each failure and never
\* exceeds 30s; it stops at the first attempt that succeeds; it gives up
\* exactly when 5 attempts have failed, and then the informer's callbacks and
\* the periodic reconciliation go on.
C16_RecoveryBoundedRetries ==
    /\ [](/\ FailedAttempts \in 0..5
          /\ rcv.pc # "done" => FailedAttempts <= 4
          /\ rcv.delay = DelayAfter(FailedAttempts)
          /\ rcv.delay <= 30
          /\ rcv.failed <=> FailedAttempts = 5
          /\ rcv.failed => rcv.pc = "done"
          /\ (rcv.failed /\ rec.pc = "off") => ENABLED R_ListRoutes
          /\ (rcv.failed /\ hpc = "idle" /\ queue # <<>>) => ENABLED H_Begin)
    /\ [][/\ rcv.pc = "done" => rcv' = rcv
          /\ rcv'.attempt # rcv.attempt =>
                /\ rcv'.attempt = rcv.attempt + 1
                /\ faults' = faults + 1
                /\ rcv'.pc = IF rcv.attempt = 5 THEN "done" ELSE "health"]_vars

\* every attempt has failed, the recovery has given up with the delay at its
\* cap, and a callback of the handler has since created a route
C16_Witness ==
    /\ rcv.pc = "done" /\ rcv.failed
    /\ rcv.attempt = 6 /\ rcv.delay = 30
    /\ hpc = "h_done" /\ hres = "ok" /\ Posts(hlog) = 1

\* the answer that makes the client's call fail
Failing(req) ==
    IF req.m = "DELETE" THEN req.st \notin {200, 404}
    ELSE IF req.m = "GET" THEN req.st \notin {200, 404}
    ELSE req.st # 200

\* the callback has called DeleteRoute / CreateRoute
DeleteMade == hcalls # <<>> /\ hcalls[1].op = "delete"
CreateMade == \E i \in 1..Len(hcalls) : hcalls[i].op = "create"

\* the callback's DeleteRoute failed: its request is the first of the log
DeleteFailed == DeleteMade /\ Failing(hlog[1])

\* the callback's CreateRoute failed: it stopped at a request that failed, or
\* sent none
CreateFailed ==
    /\ CreateMade
    /\ hpc \in {"h_set", "h_done"}
    /\ Len(hlog) = (IF DeleteMade THEN 1 ELSE 0) \/ Failing(hlog[Len(hlog)])

\* a step of the callback after a call of its has failed leaves the tracker
\* as it was, and the callback does not go on to the tracker
FailedCallKeepsTracker ==
    /\ (hpc = "h_del" /\ hpc' # hpc /\ DeleteFailed') =>
            tracker' = tracker /\ hpc' # "h_untrack"
    /\ (hpc = "h_set" /\ hpc' # hpc /\ CreateFailed) =>
            tracker' = tracker /\ hpatch' = "none"

\* the informer goes on to its next notification: the one that failed is not
\* delivered again
FailedEventNotRedelivered ==
    (hpc = "h_done" /\ hres = "err" /\ hpc' # hpc) =>
        /\ hpc' = "idle" /\ hev' = NoEvent
        /\ queue' = queue
        /\ engine' = engine /\ tracker' = tracker

\* C17: when a call of the Route Table Client made by the callback fails, the
\* callback returns the error to the watcher, the watcher does not deliver
\* the notification again, and the failed call leaves the tracker as it was.
C17_FailedCallIsReturned ==
    [][/\ (HandlerCompletes /\ (DeleteFailed' \/ CreateFailed')) => hres' = "err"
       /\ FailedCallKeepsTracker
       /\ FailedEventNotRedelivered]_vars

\* C17, amended: as C17, except that the DeleteRoute of an address change is
\* only logged when it fails: the callback goes on to CreateRoute and returns
\* what CreateRoute returns.
C17_FailedCallIsReturnedUnlessReplacing ==
    [][/\ (HandlerCompletes /\ CreateFailed') => hres' = "err"
       /\ (HandlerCompletes /\ DeleteFailed' /\ hnext' # "replace") => hres' = "err"
       /\ (HandlerCompletes /\ DeleteFailed' /\ hnext' = "replace") =>
                /\ Len(hcalls') = 2 /\ hcalls'[2].op = "create"
                /\ hres' = "err" <=> CreateFailed'
       /\ FailedCallKeepsTracker
       /\ FailedEventNotRedelivered]_vars

\* a DeleteRoute of the callback has failed: the error is returned and the
\* tracker still holds the entry
C17_Witness ==
    /\ hpc = "h_done" /\ hres = "err"
    /\ hcalls = <<DeleteCall(RouteIDOf(hev.w))>>
    /\ DeleteFailed
    /\ tracker[hev.w].exists /\ tracker[hev.w].RouteID = RouteIDOf(hev.w)

\* C18: when CreateRoute has succeeded and the patch of the Deployment's
\* annotations fails, the callback still returns success, sends the engine
\* nothing more, and the tracker records the route; returning to the informer
\* undoes none of it.
C18_PatchFailureKeepsRoute ==
    [][/\ (hpc = "h_set" /\ hpc' = "h_done" /\ hpatch' = "failed") =>
            /\ hres = "ok" /\ hres' = "ok"
            /\ engine' = engine /\ hlog' = hlog
            /\ tracker' = [tracker EXCEPT ![hev.w] =
                              TrackerEntry(cr.id, TargetAddr(cr.ip, cr.port))]
       /\ (hpc = "h_done" /\ hpatch = "failed" /\ hpc' # hpc) =>
            /\ hpc' = "idle"
            /\ engine' = engine /\ tracker' = tracker]_vars

\* the patch has failed after a POST: the callback reports success, the route
\* is in the engine and the tracker records it
C18_Witness ==
    /\ hpc = "h_done" /\ hpatch = "failed" /\ hres = "ok"
    /\ Posts(hlog) = 1
    /\ EngineHas(engine, RouteIDOf(hev.w))
    /\ GetRoute(engine, RouteIDOf(hev.w)).TargetAddr = TargetAddr(hpod, PortOf(hev.w))
    /\ tracker[hev.w] = TrackerEntry(RouteIDOf(hev.w), TargetAddr(hpod, PortOf(hev.w)))

\* the callback is in CreateRoute, or has called it
Creating == CreateMade \/ hpc \in {"cr_get", "cr_delete", "cr_post", "h_set"}

\* C19: the callback calls CreateRoute for a workload only if the Deployment
\* of the notification it handles has replica count 1 and is ready, and no
\* POST is ever sent otherwise.
C19_CreateOnlyForEligible ==
    (Creating \/ Posts(hlog) > 0) =>
        /\ hev.type \in {"add", "update"}
        /\ hev.new.replicas = 1
        /\ hev.new.ready
        /\ \A i \in 1..Len(hcalls) :
              hcalls[i].op = "create" => hcalls[i].id = RouteIDOf(hev.w)
        /\ \A i \in 1..Len(hlog) :
              hlog[i].m = "POST" => hlog[i].id = RouteIDOf(hev.w)

\* a Deployment scaled to one replica, and ready, has got its route
C19_Witness ==
    /\ hpc = "h_done" /\ hres = "ok"
    /\ hev.type = "update" /\ hev.old.replicas # 1
    /\ hev.new.replicas = 1 /\ hev.new.ready
    /\ hcalls = <<CreateCall(RouteIDOf(hev.w), HostOf(hev.w), TargetAddr(hpod, PortOf(hev.w)))>>
    /\ Posts(hlog) = 1

\* the Deployment with its unset replica count written out as 1
WithDefaultReplicas(deployment) ==
    IF deployment.exists /\ deployment.replicas = NilReplicas
    THEN [deployment EXCEPT !.replicas = 1]
    ELSE deployment

\* the notification about the Deployments with the replica count written out
WithDefaults(ev) ==
    Event(ev.type, ev.w, WithDefaultReplicas(ev.old), WithDefaultReplicas(ev.new))

\* C20: a Deployment whose replica count is unset is treated as one with
\* replica count 1 by the reconciliation, by the watcher and by the handler:
\* each decides for it what it decides for the same Deployment with replicas 1.
C20_UnsetReplicasMeansOne ==
    /\ \A w \in Workloads : Eligible(deps[w]) = Eligible(WithDefaultReplicas(deps[w]))
    /\ \A i \in 1..Len(queue) : Dispatch(queue[i]) = Dispatch(WithDefaults(queue[i]))

\* the notification being handled is a resync of a Deployment with one
\* replica that is ready and has a ready Pod
ResyncOfEligible ==
    /\ hev.type = "update" /\ hev.old = hev.new
    /\ hev.new.replicas = 1 /\ hev.new.ready
    /\ pods[hev.w] # ""

C22_Case ==
    /\ hev.type = "update"
    /\ hev.old.replicas = 1 /\ hev.new.replicas = 1
    /\ hev.old.ready /\ hev.new.ready
    /\ pods[hev.w] # ""
    /\ tracker[hev.w].exists
    /\ tracker[hev.w].TargetAddr = TargetAddr(pods[hev.w], PortOf(hev.w))

\* C22: an update of a Deployment that keeps one replica and stays ready,
\* whose address in the tracker is the address resolved now, makes the
\* callback return without a CreateRoute or DeleteRoute call, and the tracker
\* is left as it was.
C22_UnchangedAddressIsNoOp ==
    [][(hpc = "h_find" /\ hpc' # hpc /\ C22_Case) =>
            /\ hpc' = "h_done"
            /\ hcalls' = <<>> /\ hlog' = <<>>
            /\ engine' = engine
            /\ tracker' = tracker]_vars

\* the callback has returned from such an update, having called nothing
C22_Witness ==
    /\ hpc = "h_done" /\ hres = "ok"
    /\ C22_Case
    /\ hseen = tracker[hev.w] /\ hpod = pods[hev.w]
    /\ hcalls = <<>> /\ hlog = <<>>
    /\ EngineHas(engine, RouteIDOf(hev.w))

C24_StopChannelClosedOnce == stopCh \in {"open", "closed"}

\* an attempt of the startup recovery begins / a reconciliation pass begins
AttemptBegins == rcv.pc = "health" /\ rcv' # rcv
PassBegins == rec.pc = "off" /\ rec'.pc # "off"

\* C25: once K8sRouter.Stop has cancelled the context, the startup recovery
\* begins no further attempt and no further reconciliation pass begins.
C25_NoWorkAfterCancel ==
    [][ctxDone => ~AttemptBegins /\ ~PassBegins]_vars

\* the entries the tracker's map holds for a key
EntriesOf(k) == {e \in tk.routes : e[1] = k}

\* C26: whatever Set, Delete, Get, List and Count calls have been made, in
\* whatever order, the tracker holds at most one entry for every key.
C26_AtMostOneEntryPerKey ==
    /\ \A k \in TkKeys : Cardinality(EntriesOf(k)) <= 1
    /\ Cardinality(tk.routes) <= Cardinality(TkKeys)

\* a key has been set again after a caller got its entry: the caller holds the
\* old RouteInfo, the map holds the new one only
C26_Witness ==
    /\ tk.got # 0
    /\ tk.got \notin {e[2] : e \in tk.routes}
    /\ \A k \in TkKeys : Cardinality(EntriesOf(k)) = 1
    /\ \E e \in tk.routes : tk.heap[e[2]].RouteID # tk.heap[tk.got].RouteID

\* what Get, List and Count answer: the RouteInfo of every key, by value
Answers(t) ==
    [k \in TkKeys |-> IF TkLookup(t, k) = 0 THEN NoInfo ELSE t.heap[TkLookup(t, k)]]

\* a caller writes to something Get or List returned to it
CallerWrites ==
    /\ tk' # tk
    /\ tk'.routes = tk.routes /\ tk'.got = tk.got /\ tk'.count = tk.count
    /\ tk'.listed \subseteq tk.listed

\* C27: a write of a caller to what Get or List returned changes nothing that
\* a later Get, List or Count answers.
C27_ReadsReturnCopies ==
    [][CallerWrites => Answers(tk') = Answers(tk)]_vars

\* C28: for every non-empty identifier x, ParseRouteID(BuildRouteID(x)) is x,
\* without error.
C28_RouteIDRoundTrip ==
    rid.pc = "parsed" => rid.parsed = [id |-> rid.x, err |-> FALSE]

\* the arguments of the CreateRoute call are ones it has to reject
Rejectable ==
    \/ cr.id = <<>>
    \/ cr.domain = ""
    \/ cr.ip \notin {"10.0.0.5", "10.0.0.6"}
    \/ cr.port < 1
    \/ cr.port > 65535

\* C29: CreateRoute with an empty id, an empty hostname, an ill-formed IP or a
\* port outside 1..65535 returns an error and sends the engine no request.
C29_CreateRouteValidates ==
    hop = "create" /\ Rejectable =>
        /\ hpc = "idle"
        /\ hres = "err"
        /\ hlog = <<>>

\* a call with port 65536 has been rejected while the engine holds routes
C29_Witness ==
    /\ hop = "create" /\ hpc = "idle"
    /\ cr.port = 65536 /\ cr.id # <<>> /\ cr.domain # ""
    /\ hres = "err" /\ hlog = <<>>
    /\ engine # <<>> /\ engine = engine0

\* C30: Validate returns an error when the namespace or the base domain is
\* empty or the default port is neither 0 nor within 1..65535.  When it
\* succeeds the default port is 8089 if it was 0, and within 1..65535; the
\* resync period is "30s", the reconcile period "5m" and the admin endpoint
\* the local one if they were unset; what was set is kept; and a second
\* Validate succeeds and changes nothing.
C30_ValidateFillsDefaults ==
    cfg.pc \in {"once", "twice"} =>
        LET given == cfg.given
            out == cfg.first.c
        IN  /\ (\/ given.Namespace = ""
                \/ given.BaseDomain = ""
                \/ (given.DefaultPort # 0 /\ given.DefaultPort \notin 1..65535))
               => cfg.first.err
            /\ ~cfg.first.err =>
                /\ out.Namespace = given.Namespace /\ out.BaseDomain = given.BaseDomain
                /\ out.DefaultPort = (IF given.DefaultPort = 0 THEN 8089
                                      ELSE given.DefaultPort)
                /\ out.DefaultPort \in 1..65535
                /\ out.ResyncPeriod = (IF given.ResyncPeriod = "" THEN "30s"
                                       ELSE given.ResyncPeriod)
                /\ out.ReconcilePeriod = (IF given.ReconcilePeriod = "" THEN "5m"
                                          ELSE given.ReconcilePeriod)
                /\ out.CaddyAdminURL = (IF given.CaddyAdminURL = ""
                                        THEN "http://localhost:2019"
                                        ELSE given.CaddyAdminURL)
                /\ cfg.pc = "twice" => cfg.second = cfg.first

\* a Config with only the required fields has been validated twice
C30_Witness ==
    /\ cfg.pc = "twice"
    /\ cfg.given = Config("ns", "dev", 0, "", "", "", "")
    /\ ~cfg.first.err /\ ~cfg.second.err
    /\ cfg.second.c = Config("ns", "dev", 8089, "30s", "5m", "http://localhost:2019", "srv0")

\* the reconciliation pass deletes the route `id` from the engine in this step
PassDeletes(id) ==
    /\ rec.pc = "del"
    /\ id \in rec.todo /\ id \notin rec'.todo
    /\ EngineHas(engine, id)
    /\ Count(engine', id) < Count(engine, id)

\* w is eligible and the handler has created and recorded its route: the
\* engine did not hold that route when the run began
HandlerRouteOfEligible(w) ==
    /\ Eligible(deps[w])
    /\ tracker[w].exists /\ tracker[w].RouteID = RouteIDOf(w)
    /\ EngineHas(engine, RouteIDOf(w))
    /\ \A i \in 1..Len(engine0) : engine0[i] # engine[EngineIndex(engine, RouteIDOf(w))]

DuplicatedIDs(raw) == DOMAIN CleanupTodo(raw)

\* CleanupDuplicateRoutes has returned the error of a failed delete
CleanupDeleteFailed == clOut.done /\ clOut.err /\ clOut.dels # <<>>

\* C32: when the delete of one occurrence of a duplicated identifier fails,
\* CleanupDuplicateRoutes goes on to the remaining duplicated identifiers: by
\* the time it returns the error it has sent every delete owed for each of
\* the other duplicated identifiers, and it returns the number of deletes
\* that succeeded.
C32_CleanupContinuesAfterFailure ==
    CleanupDeleteFailed =>
        LET failed == clOut.dels[Len(clOut.dels)]
        IN  /\ clOut.count = Len(clOut.dels) - 1
            /\ \A id \in DuplicatedIDs(clOut.raw) \ {failed} :
                   DeletesOf(clOut.dels, id) = CleanupTodo(clOut.raw)[id]

\* a step of the startup recovery: of its loop, or of the cleanup it calls
RecoveryStep == rcv' # rcv \/ cl' # cl

\* the call the step made was answered
Answered == faults' = faults

SameAttempt == rcv'.attempt = rcv.attempt

\* C33: in each attempt of the startup recovery the health probe comes before
\* every other call to the engine; CleanupDuplicateRoutes is called only after
\* the probe of that attempt has succeeded, and the tracker is rebuilt only
\* after the cleanup has returned; the recovery writes no tracker entry before
\* that; and a cleanup that failed does not keep the attempt from rebuilding
\* the tracker.
C33_RecoveryOrder ==
    [][RecoveryStep =>
        \* the probe: no other call, and only its success leads to the cleanup
        /\ rcv.pc = "health" =>
            /\ engine' = engine /\ cl' = cl /\ tracker' = tracker
            /\ rcv'.pc = "cleanup" <=> Answered
            /\ Answered => SameAttempt
            /\ ~Answered => rcv'.attempt = rcv.attempt + 1 /\ rcv'.pc \in {"health", "done"}
        \* the cleanup is entered from the probe alone, in the same attempt
        /\ rcv'.pc = "cleanup" => rcv.pc = "health"
        /\ cl' # cl => rcv.pc \in {"cleanup", "cleaning"}
        /\ engine' # engine => rcv.pc = "cleaning" /\ cl.pc = "run"
        \* the rebuild begins when the cleanup has returned
        /\ (rcv.pc = "cleaning" /\ rcv' # rcv) => cl.pc = "done"
        /\ (rcv'.pc = "deps" /\ rcv.pc # "deps") => rcv.pc = "cleaning" /\ SameAttempt
        /\ (rcv'.pc = "set" /\ rcv.pc # "set") => rcv.pc = "deps" /\ SameAttempt
        \* the tracker is written at the end of the rebuild only
        /\ tracker' # tracker => rcv.pc = "set" /\ SameAttempt
        \* a failed cleanup is followed by the rebuild
        /\ (rcv.pc = "cleaning" /\ cl.pc = "done" /\ clOut.err /\ Answered) =>
            rcv'.pc = "deps" /\ SameAttempt]_vars

\* the cleanup of an attempt has failed, after a probe that succeeded
C33_Witness == rcv.pc = "cleaning" /\ cl.pc = "done" /\ clOut.err /\ rcv.attempt = 2

\* the route ids the pass sends a delete for in this step
PassDeleteCalls == IF rec.pc = "del" THEN rec.todo \ rec'.todo ELSE {}

\* expectedRoutes of the pass in progress: the route ids of the identifiers
\* that the pass has mapped to deployment keys
PassExpected == {BuildRouteID(g) : g \in DOMAIN rec.keys}

\* C34: a reconciliation pass sends a delete only for a route id that is
\* managed and is not in the expected set the pass has computed; it removes
\* no route without an id or with a foreign id, and no route of its expected set.
C34_PassDeletesOnlyManagedOrphans ==
    [][/\ \A id \in PassDeleteCalls : IsManagedRouteID(id) /\ id \notin PassExpected
       /\ rec' # rec =>
            \A i \in 1..Len(engine) :
                (~IsManagedRouteID(engine[i].id) \/ engine[i].id \in PassExpected)
                    => Occurrences(engine', engine[i]) = Occurrences(engine, engine[i])]_vars

\* a pass has deleted the orphan of the engine and spared the route it expects
C34_Witness ==
    /\ rec.pc = "done" /\ rec.deletedCount = 1
    /\ EngineHas(engine0, IdC) /\ ~EngineHas(engine, IdC)
    /\ Eligible(deps["w2"]) /\ EngineHas(engine, IdB)

\* a listing of the pass fails in this step
PassListingFails == rec.pc \in {"off", "deps"} /\ rec'.pc # rec.pc /\ faults' # faults

\* the pass that failed returns to the periodic loop in this step
FailedPassReturns == rec.pc = "done" /\ rec.err /\ rec'.pc # "done"

\* C35: when the listing of the routes or of the Deployments fails, the pass
\* returns the error without having sent a delete and without having touched
\* the tracker; the periodic loop is then back at its select, where the next
\* tick begins another pass.
C35_ListingFailureAbortsPass ==
    /\ [](rec.err => /\ rec.pc = "done"
                      /\ rec.todo = {} /\ rec.deletedCount = 0 /\ ~rec.failed)
    /\ [][/\ PassListingFails =>
                /\ rec'.pc = "done" /\ rec'.err
                /\ engine' = engine /\ tracker' = tracker
          /\ FailedPassReturns =>
                /\ rec' = RecOff
                /\ ppc' = "select" /\ Alive'
                /\ engine' = engine /\ tracker' = tracker]_vars

\* a listing of a pass has failed, the only call that did; the engine holds
\* the orphaned route as before
C35_Witness ==
    /\ rec.pc = "done" /\ rec.err
    /\ faults = MaxFaults
    /\ rcv.pc = "done" /\ ~rcv.failed /\ rcv.attempt = 1
    /\ engine = engine0 /\ EngineHas(engine, IdC)

\* the delete the pass sends in this step fails
PassDeleteFails == PassDeleteCalls # {} /\ faults' # faults

\* C36: in a reconciliation pass a delete that fails does not end the pass:
\* the orphans not yet tried remain to be deleted and the pass goes on with
\* them; the failed delete leaves the engine and every tracker entry, that of
\* the orphan included, as they were.
C36_OrphanDeleteFailureIsolated ==
    /\ [](rec.pc = "done" => rec.todo = {})
    /\ [][PassDeleteFails =>
            /\ rec'.failed
            /\ Cardinality(PassDeleteCalls) = 1
            /\ rec'.todo = rec.todo \ PassDeleteCalls
            /\ rec'.pc = (IF rec'.todo = {} THEN "done" ELSE "del")
            /\ rec'.deletedCount = rec.deletedCount
            /\ engine' = engine
            /\ tracker' = tracker]_vars

\* the delete of one of two orphans has failed and the other orphan has been
\* deleted after it
C36_Witness ==
    /\ rec.pc = "done" /\ rec.failed /\ rec.deletedCount = 1
    /\ EngineHas(engine0, IdC) /\ EngineHas(engine0, IdB)
    /\ EngineHas(engine, IdC) /\ ~EngineHas(engine, IdB)
    /\ changes = 0

\* the delete of an orphan has failed whose workload the tracker holds
C36_WitnessTracked ==
    /\ rec.failed
    /\ tracker["w1"].exists /\ tracker["w1"].RouteID = IdA
    /\ ~Eligible(deps["w1"]) /\ EngineHas(engine, IdA)
    /\ Len(engine) = Len(engine0)

\* the callback is in deleteRoute for a workload the tracker has no entry of
DeleteOfUntracked ==
    /\ hpc = "h_del" /\ hnext = "delete"
    /\ ~tracker[hev.w].exists

\* C37: when the handler processes a scale away from 1, a loss of readiness
\* or a deletion for a workload without a tracker entry, it returns success,
\* calls the Route Table Client not at all and leaves the tracker (and the
\* engine) as they were, also when the engine holds a route for the workload.
C37_DeleteWithoutEntryIsNoOp ==
    [][(DeleteOfUntracked /\ hpc' # hpc) =>
            /\ hpc' = "h_done" /\ hres' = "ok"
            /\ hcalls' = <<>> /\ hlog' = <<>>
            /\ tracker' = tracker
            /\ engine' = engine]_vars

\* the handler has returned from a delete for a workload without an entry
\* while the engine holds the route of that workload and the startup recovery
\* has not yet rebuilt the tracker
C37_Witness ==
    /\ hpc = "h_done" /\ hnext = "delete" /\ hres = "ok" /\ hcalls = <<>>
    /\ ~tracker[hev.w].exists
    /\ EngineHas(engine, RouteIDOf(hev.w))
    /\ rcv.pc = "health" /\ rcv.attempt = 1

\* no callback of the handler and no startup recovery is in progress
NoCallInProgress == hpc = "idle" /\ rcv.pc = "done"

\* C38: whenever no handler call and no recovery is in progress, a tracker
\* entry w -> (id, addr) for whose id the engine holds a route agrees with
\* that route: the target address of the route is addr.
C38_TrackerAddressAgrees ==
    NoCallInProgress =>
        \A w \in Workloads :
            (tracker[w].exists /\ EngineHas(engine, tracker[w].RouteID))
                => GetRoute(engine, tracker[w].RouteID).TargetAddr = tracker[w].TargetAddr

WatcherStopped == spc = "stopped" \/ wpc = "returned"

\* C40: IsReady returns true only when the caches of the informers have
\* synced, and false again once Stop has been called; when the caches do not
\* sync within 30 seconds or before the cancellation, Start returns the
\* error and IsReady stays false.
C40_WatcherReadiness ==
    Alive =>
        /\ isReady => wpc \notin {"sync", "mark", "failed"}
        /\ WatcherStopped => ~isReady
        /\ wpc = "failed" => ~isReady

====
